---------------------------- MODULE Spec2Model ----------------------------
(***************************************************************************)
(* A model of the site duplicator: the domain generator                    *)
(* (utils/domain_generator.py) and the batch processor                     *)
(* (utils/batch_processor.py) with the collaborators it calls.             *)
(*                                                                         *)
(* Strings are sequences of one-character strings, so that slicing,        *)
(* replace, lower and the validators are computed as the code computes     *)
(* them.                                                                   *)
(***************************************************************************)
EXTENDS Integers, Sequences, FiniteSets, TLC

(***************************************************************************)
(* Bounds of the model.                                                    *)
(***************************************************************************)
\* generate_domain calls one run of the generator specification makes
MaxCalls == 2
\* largest `count` passed to generate_domains / copies_count of a batch
MaxCopies == 2
\* longest list of archives handed to process_multiple_archives
MaxArchives == 2

(***************************************************************************)
(* Python str operations.                                                  *)
(***************************************************************************)
LowerLetters ==
    <<"a","b","c","d","e","f","g","h","i","j","k","l","m",
      "n","o","p","q","r","s","t","u","v","w","x","y","z">>

UpperLetters ==
    <<"A","B","C","D","E","F","G","H","I","J","K","L","M",
      "N","O","P","Q","R","S","T","U","V","W","X","Y","Z">>

Digits == {"0","1","2","3","4","5","6","7","8","9"}

Range(s) == { s[i] : i \in DOMAIN s }

Letters == Range(LowerLetters) \cup Range(UpperLetters)

Min(a, b) == IF a <= b THEN a ELSE b

Max(a, b) == IF a >= b THEN a ELSE b

\* c.lower() for one character
LowerChar(c) ==
    IF c \in Range(UpperLetters)
    THEN LowerLetters[CHOOSE i \in DOMAIN UpperLetters : UpperLetters[i] = c]
    ELSE c

\* c.upper() for one character
UpperChar(c) ==
    IF c \in Range(LowerLetters)
    THEN UpperLetters[CHOOSE i \in DOMAIN LowerLetters : LowerLetters[i] = c]
    ELSE c

\* s.lower()
Lower(s) == [i \in DOMAIN s |-> LowerChar(s[i])]

\* s.upper()
Upper(s) == [i \in DOMAIN s |-> UpperChar(s[i])]

\* s.isalpha(): non-empty and letters only
IsAlpha(s) == Len(s) >= 1 /\ \A i \in DOMAIN s : s[i] \in Letters

\* s[:n]
Take(s, n) == SubSeq(s, 1, Min(n, Len(s)))

\* s[n:]  (n counted from 0)
Drop(s, n) == SubSeq(s, Min(n, Len(s)) + 1, Len(s))

\* s[-n:] for n >= 1
LastN(s, n) == SubSeq(s, Max(Len(s) - n, 0) + 1, Len(s))

\* s[a:a+n]  (a counted from 0)
Slice(s, a, n) == SubSeq(s, a + 1, Min(a + n, Len(s)))

\* s[::-1]
Reverse(s) == [i \in DOMAIN s |-> s[Len(s) + 1 - i]]

\* s.startswith(sub) at offset i (1-based)
MatchAt(s, sub, i) ==
    /\ i + Len(sub) - 1 <= Len(s)
    /\ SubSeq(s, i, i + Len(sub) - 1) = sub

\* sub in s
Contains(s, sub) == \E i \in 1..(Len(s) + 1) : MatchAt(s, sub, i)

RECURSIVE ReplaceFrom(_, _, _, _)
ReplaceFrom(s, old, new, i) ==
    LET starts == { j \in i..Len(s) : MatchAt(s, old, j) }
    IN IF starts = {} THEN SubSeq(s, i, Len(s))
       ELSE LET first == CHOOSE j \in starts : \A k \in starts : j <= k
            IN SubSeq(s, i, first - 1) \o new \o ReplaceFrom(s, old, new, first + Len(old))

\* s.replace(old, new) for a non-empty old: leftmost, non-overlapping
Replace(s, old, new) == ReplaceFrom(s, old, new, 1)

RECURSIVE ReplaceEach(_, _)
\* for sub in subs: s = s.replace(sub, '')
ReplaceEach(s, subs) ==
    IF subs = <<>> \/ s = <<>> THEN s
    ELSE ReplaceEach(Replace(s, Head(subs), <<>>), Tail(subs))

\* ''.join(c for c in s if c.isalpha())
OnlyAlpha(s) == SelectSeq(s, LAMBDA c : c \in Letters)

(***************************************************************************)
(* DomainGenerator: the dictionary.                                        *)
(***************************************************************************)
\* the dictionary load_dictionary falls back to when the words file is absent
DefaultDictionary ==
    [ short_words |-> << <<"b","i","o">>, <<"p","u","r","e">>, <<"c","a","r","e">>,
                         <<"w","e","l","l">>, <<"z","e","n">>, <<"l","u","x">>,
                         <<"n","o","v","a">>, <<"v","i","a">> >>,
      random_consonants |-> <<"x","z","q","w","k">>,
      random_vowels |-> <<"a","e","i","o","u","y">>,
      vowel_replacements |-> [c \in {} |-> <<>>] ]

\* a words file with two words, one consonant and one vowel replacement
SmallDictionary ==
    [ short_words |-> << <<"z","e","n">>, <<"c","r","y">> >>,
      random_consonants |-> <<"x">>,
      random_vowels |-> <<"a","e","i","o","u","y">>,
      vowel_replacements |-> [c \in {"o"} |-> <<"a">>] ]


Words(d) == Range(d.short_words)

Consonants(d) == Range(d.random_consonants)

(***************************************************************************)
(* DomainGenerator.extract_parts: the 3..6 character pieces of the cleaned *)
(* original (prefixes, suffixes, and a middle window when it is longer     *)
(* than 6), without duplicates.                                            *)
(***************************************************************************)
extract_parts(domain) ==
    LET length == Len(domain)
        starts == { Take(domain, i) : i \in 3..Min(6, length) }
        ends == { LastN(domain, i) : i \in 3..Min(6, length) }
        mid_start == length \div 3
        middle == IF length > 6
                  THEN { Slice(domain, mid_start, i) :
                           i \in { j \in 3..6 : mid_start + j <= length } }
                  ELSE {}
    IN { p \in starts \cup ends \cup middle : 3 <= Len(p) /\ Len(p) <= 6 }

(***************************************************************************)
(* The seven strategies.  random.choice is a choice over the list, so each *)
(* strategy is the set of the strings it can return.                       *)
(***************************************************************************)
strategy_prefix_original_plus_nutra(d, parts) ==
    { part \o nutra : part \in parts, nutra \in Words(d) }

strategy_nutra_plus_suffix_original(d, parts) ==
    { nutra \o part : nutra \in Words(d), part \in parts }

\* the while loop redraws word2 until it differs from word1
strategy_pure_nutra_combination(d) ==
    { pair[1] \o pair[2] :
        pair \in { w \in Words(d) \X Words(d) : w[2] # w[1] } }

strategy_triple_combination(d, parts) ==
    UNION { { word1 \o word2 \o Take(part, 3),
              word1 \o Take(part, 3) \o Take(word2, 3),
              Take(part, 3) \o word1 \o Take(word2, 3) } :
            word1 \in Words(d), word2 \in Words(d),
            part \in (IF parts # {} THEN parts ELSE Words(d)) }

strategy_reverse_mutation(d, parts) ==
    UNION { LET reversed_part == Take(Reverse(part), 4)
            IN { reversed_part \o nutra,
                 nutra \o reversed_part,
                 reversed_part \o Take(nutra, 4) } :
            part \in parts, nutra \in Words(d) }

strategy_consonant_insertion(d, parts) ==
    UNION { { part \o <<consonant>> \o nutra,
              nutra \o <<consonant>> \o part,
              Take(part, 3) \o <<consonant>> \o nutra } :
            part \in parts, nutra \in Words(d), consonant \in Consonants(d) }

\* every letter with an entry in vowel_replacements is, by a coin flip,
\* kept or replaced by one of its replacements
Mutations(d, part) ==
    { m \in [DOMAIN part -> Range(part) \cup
                            UNION { Range(d.vowel_replacements[c]) :
                                    c \in DOMAIN d.vowel_replacements }] :
        \A i \in DOMAIN part :
            \/ m[i] = part[i]
            \/ /\ part[i] \in DOMAIN d.vowel_replacements
               /\ m[i] \in Range(d.vowel_replacements[part[i]]) }

strategy_vowel_mutation(d, parts) ==
    UNION { { mutated_part \o nutra, nutra \o mutated_part } :
            mutated_part \in UNION { Mutations(d, part) : part \in parts },
            nutra \in Words(d) }

\* the (strategy, weight) list of generate_domain
strategies ==
    << <<"prefix_original_plus_nutra", 30>>,
       <<"nutra_plus_suffix_original", 30>>,
       <<"pure_nutra_combination", 15>>,
       <<"triple_combination", 10>>,
       <<"reverse_mutation", 10>>,
       <<"consonant_insertion", 3>>,
       <<"vowel_mutation", 2>> >>

\* random.choice(strategy_list): a strategy is in the list weight times
ChosenStrategies == { st[1] : st \in { x \in Range(strategies) : x[2] >= 1 } }

StrategyOutputs(name, d, parts) ==
    CASE name = "prefix_original_plus_nutra" -> strategy_prefix_original_plus_nutra(d, parts)
      [] name = "nutra_plus_suffix_original" -> strategy_nutra_plus_suffix_original(d, parts)
      [] name = "pure_nutra_combination" -> strategy_pure_nutra_combination(d)
      [] name = "triple_combination" -> strategy_triple_combination(d, parts)
      [] name = "reverse_mutation" -> strategy_reverse_mutation(d, parts)
      [] name = "consonant_insertion" -> strategy_consonant_insertion(d, parts)
      [] name = "vowel_mutation" -> strategy_vowel_mutation(d, parts)

\* what one attempt of the retry loop can draw: new_domain.lower()
AttemptDraws(d, parts) ==
    { Lower(c) : c \in UNION { StrategyOutputs(name, d, parts) : name \in ChosenStrategies } }

(***************************************************************************)
(* DomainGenerator.validate_domain                                         *)
(***************************************************************************)
VowelsBoth == {"a","e","i","o","u","A","E","I","O","U"}

VowelsLower == {"a","e","i","o","u"}

\* the longest run of characters whose lower() is not in 'aeiou'
RECURSIVE ConsonantStreakExceeds(_, _, _, _)
ConsonantStreakExceeds(domain, i, streak, limit) ==
    IF i > Len(domain) THEN FALSE
    ELSE IF LowerChar(domain[i]) \notin VowelsLower
         THEN IF streak + 1 > limit THEN TRUE
              ELSE ConsonantStreakExceeds(domain, i + 1, streak + 1, limit)
         ELSE ConsonantStreakExceeds(domain, i + 1, 0, limit)

MinDomainLen == 5

MaxDomainLen == 11

MinVowels == 2

MaxConsonantStreak == 4

validate_domain(domain) ==
    /\ MinDomainLen <= Len(domain) /\ Len(domain) <= MaxDomainLen
    /\ IsAlpha(domain)
    /\ Cardinality({ i \in DOMAIN domain : domain[i] \in VowelsBoth }) >= MinVowels
    /\ ~ConsonantStreakExceeds(domain, 1, 0, MaxConsonantStreak)

(***************************************************************************)
(* generate_domain: the cleaning of the original domain                    *)
(***************************************************************************)
StrippedZones ==
    << <<".","c","o","m">>, <<".","n","e","t">>, <<".","o","r","g">>, <<".","r","u">>,
       <<".","i","n","f","o">>, <<".","i","o">>, <<".","c","o">> >>

HealthToken == <<"h","e","a","l","t","h">>

MinCleanLen == 3

clean_original(original_domain) ==
    LET lowered == Lower(original_domain)
        no_zone == ReplaceEach(lowered, StrippedZones)
        no_www == ReplaceEach(no_zone, << <<"w","w","w",".">>,
                                          <<"h","t","t","p",":","/","/">>,
                                          <<"h","t","t","p","s",":","/","/">> >>)
        letters == OnlyAlpha(no_www)
    IN IF Len(letters) < MinCleanLen THEN HealthToken ELSE letters

\* the fallback of generate_domain after the retry loop is exhausted
FallbackDraws(d, parts) ==
    { Lower(Take(base, 4) \o Take(nutra, 4) \o <<suffix>>) :
        base \in (IF parts # {} THEN parts ELSE {HealthToken}),
        nutra \in Words(d), suffix \in Consonants(d) }

max_attempts == 50

(***************************************************************************)
(* DomainDetector: validation and cleaning of a captured token.            *)
(***************************************************************************)
ignore_domains ==
    { <<"g","o","o","g","l","e",".","c","o","m">>,
      <<"g","o","o","g","l","e","a","p","i","s",".","c","o","m">>,
      <<"g","o","o","g","l","e","-","a","n","a","l","y","t","i","c","s",".","c","o","m">>,
      <<"g","o","o","g","l","e","t","a","g","m","a","n","a","g","e","r",".","c","o","m">>,
      <<"g","o","o","g","l","e","s","y","n","d","i","c","a","t","i","o","n",".","c","o","m">>,
      <<"d","o","u","b","l","e","c","l","i","c","k",".","n","e","t">>,
      <<"g","s","t","a","t","i","c",".","c","o","m">>,
      <<"f","o","n","t","s",".","g","o","o","g","l","e",".","c","o","m">>,
      <<"m","a","p","s",".","g","o","o","g","l","e",".","c","o","m">>,
      <<"a","c","c","o","u","n","t","s",".","g","o","o","g","l","e",".","c","o","m">>,
      <<"f","a","c","e","b","o","o","k",".","c","o","m">>,
      <<"t","w","i","t","t","e","r",".","c","o","m">>,
      <<"i","n","s","t","a","g","r","a","m",".","c","o","m">>,
      <<"y","o","u","t","u","b","e",".","c","o","m">>,
      <<"l","i","n","k","e","d","i","n",".","c","o","m">>,
      <<"p","i","n","t","e","r","e","s","t",".","c","o","m">>,
      <<"t","i","k","t","o","k",".","c","o","m">>,
      <<"s","n","a","p","c","h","a","t",".","c","o","m">>,
      <<"v","k",".","c","o","m">>,
      <<"o","k",".","r","u">>,
      <<"f","b",".","c","o","m">>,
      <<"t",".","c","o">>,
      <<"y","o","u","t","u",".","b","e">>,
      <<"c","l","o","u","d","f","l","a","r","e",".","c","o","m">>,
      <<"j","s","d","e","l","i","v","r",".","n","e","t">>,
      <<"u","n","p","k","g",".","c","o","m">>,
      <<"c","d","n","j","s",".","c","o","m">>,
      <<"c","d","n",".","j","s","d","e","l","i","v","r",".","n","e","t">>,
      <<"s","t","a","c","k","p","a","t","h",".","b","o","o","t","s","t","r","a","p","c","d","n",".","c","o","m">>,
      <<"m","a","x","c","d","n",".","b","o","o","t","s","t","r","a","p","c","d","n",".","c","o","m">>,
      <<"c","o","d","e",".","j","q","u","e","r","y",".","c","o","m">>,
      <<"a","j","a","x",".","g","o","o","g","l","e","a","p","i","s",".","c","o","m">>,
      <<"u","s","e",".","f","o","n","t","a","w","e","s","o","m","e",".","c","o","m">>,
      <<"f","o","n","t","a","w","e","s","o","m","e",".","c","o","m">>,
      <<"m","a","i","l","c","h","i","m","p",".","c","o","m">>,
      <<"s","t","r","i","p","e",".","c","o","m">>,
      <<"p","a","y","p","a","l",".","c","o","m">>,
      <<"r","e","c","a","p","t","c","h","a",".","n","e","t">>,
      <<"w","3",".","o","r","g">>,
      <<"s","c","h","e","m","a",".","o","r","g">>,
      <<"c","r","e","a","t","i","v","e","c","o","m","m","o","n","s",".","o","r","g">>,
      <<"w","o","r","d","p","r","e","s","s",".","o","r","g">>,
      <<"e","x","a","m","p","l","e",".","c","o","m">>,
      <<"e","x","a","m","p","l","e",".","n","e","t">>,
      <<"e","x","a","m","p","l","e",".","o","r","g">>,
      <<"l","o","c","a","l","h","o","s","t">>,
      <<"y","a","n","d","e","x",".","r","u">>,
      <<"y","a","n","d","e","x",".","c","o","m">>,
      <<"m","e","t","r","i","k","a",".","y","a","n","d","e","x",".","r","u">>,
      <<"c","o","u","n","t","e","r",".","y","a","d","r","o",".","r","u">>,
      <<"m","c",".","y","a","n","d","e","x",".","r","u">>,
      <<"t","o","p","-","f","w","z","1",".","m","a","i","l",".","r","u">>,
      <<"h","o","t","j","a","r",".","c","o","m">>,
      <<"c","r","a","z","y","e","g","g",".","c","o","m">>,
      <<"g","r","a","v","a","t","a","r",".","c","o","m">>,
      <<"d","i","s","q","u","s",".","c","o","m">>,
      <<"a","d","d","t","h","i","s",".","c","o","m">>,
      <<"s","h","a","r","e","t","h","i","s",".","c","o","m">> }

\* s.split(sep) for a one-character sep
Split(s, sep) ==
    LET seps == { i \in DOMAIN s : s[i] = sep }
        cut(k) == IF k = 0 THEN 0
                  ELSE IF k > Cardinality(seps) THEN Len(s) + 1
                  ELSE CHOOSE i \in seps : Cardinality({ j \in seps : j < i }) = k - 1
    IN [k \in 1..(Cardinality(seps) + 1) |-> SubSeq(s, cut(k - 1) + 1, cut(k) - 1)]

RECURSIVE Join(_, _)
\* sep.join(parts)
Join(parts, sep) ==
    IF parts = <<>> THEN <<>>
    ELSE IF Len(parts) = 1 THEN parts[1]
         ELSE parts[1] \o sep \o Join(Tail(parts), sep)

Whitespace == {" ", "\t", "\n", "\r"}

RECURSIVE Strip(_)
\* s.strip()
Strip(s) ==
    IF s = <<>> THEN s
    ELSE IF s[1] \in Whitespace THEN Strip(Tail(s))
    ELSE IF s[Len(s)] \in Whitespace THEN Strip(SubSeq(s, 1, Len(s) - 1))
    ELSE s

\* the length of the run of characters of `class` that starts at i
RECURSIVE RunLen(_, _, _)
RunLen(s, i, class) ==
    IF i > Len(s) \/ s[i] \notin class THEN 0
    ELSE 1 + RunLen(s, i + 1, class)

\* re.sub(r':\d+', '', s)
RECURSIVE StripPorts(_, _)
StripPorts(s, i) ==
    LET starts == { j \in i..Len(s) : s[j] = ":" /\ RunLen(s, j + 1, Digits) >= 1 }
    IN IF starts = {} THEN SubSeq(s, i, Len(s))
       ELSE LET first == CHOOSE j \in starts : \A k \in starts : j <= k
            IN SubSeq(s, i, first - 1)
               \o StripPorts(s, first + 1 + RunLen(s, first + 1, Digits))

clean_domain(domain) ==
    LET stripped == Strip(Lower(domain))
        no_www == Replace(stripped, <<"w","w","w",".">>, <<>>)
        no_port == StripPorts(no_www, 1)
    IN Split(no_port, "/")[1]

\* [a-zA-Z0-9-]
LabelChars == Letters \cup Digits \cup {"-"}

MinValidLen == 4

is_valid_domain(domain) ==
    LET parts == Split(domain, ".")
    IN /\ Len(domain) >= MinValidLen
       /\ "." \in Range(domain)
       /\ Len(parts) >= 2
       /\ \A i \in DOMAIN parts :
             parts[i] # <<>> /\ Range(parts[i]) \subseteq LabelChars
       /\ IsAlpha(parts[Len(parts)])
       /\ domain \notin ignore_domains

two_level_zones ==
    { <<"c","o",".","u","k">>, <<"c","o","m",".","a","u">>, <<"c","o",".","j","p">>,
      <<"c","o","m",".","b","r">>, <<"c","o",".","z","a">> }

normalize_to_base_domain(domain) ==
    LET parts == Split(domain, ".")
        n == Len(parts)
    IN IF n > 2
       THEN IF Join(SubSeq(parts, n - 1, n), <<".">>) \in two_level_zones
            THEN IF n > 3 THEN Join(SubSeq(parts, n - 2, n), <<".">>) ELSE domain
            ELSE Join(SubSeq(parts, n - 1, n), <<".">>)
       ELSE domain

(***************************************************************************)
(* DomainDetector.extract_domain_from_filename                             *)
(***************************************************************************)
None == <<"None">>

ArchiveSuffixes ==
    << <<".","z","i","p">>, <<".","r","a","r">>, <<".","7","z">>, <<".","t","a","r">>,
       <<".","g","z">>, <<".","t","a","r",".","g","z">> >>

BundlingSuffixes ==
    << <<"_","b","a","c","k","u","p">>, <<"-","b","a","c","k","u","p">>,
       <<"_","a","r","c","h","i","v","e">>, <<"-","a","r","c","h","i","v","e">>,
       <<"_","s","i","t","e">>, <<"-","s","i","t","e">>,
       <<"_","w","w","w">>, <<"-","w","w","w">>,
       <<"_","w","e","b">>, <<"-","w","e","b">> >>

DateSeparators == {"_", "-"}

MinDateDigits == 4

MaxDateDigits == 8

\* the length of the match of [_-]?\d{4,8}[_-]? at i, or 0
DateMatchLen(s, i) ==
    LET lead == IF i <= Len(s) /\ s[i] \in DateSeparators
                   /\ RunLen(s, i + 1, Digits) >= MinDateDigits
                THEN 1 ELSE 0
        digits == Min(RunLen(s, i + lead, Digits), MaxDateDigits)
        after == i + lead + digits
        trail == IF after <= Len(s) /\ s[after] \in DateSeparators THEN 1 ELSE 0
    IN IF digits >= MinDateDigits THEN lead + digits + trail ELSE 0

\* re.sub(r'[_-]?\d{4,8}[_-]?', '', s)
RECURSIVE StripDates(_, _)
StripDates(s, i) ==
    LET starts == { j \in i..Len(s) : DateMatchLen(s, j) > 0 }
    IN IF starts = {} THEN SubSeq(s, i, Len(s))
       ELSE LET first == CHOOSE j \in starts : \A k \in starts : j <= k
            IN SubSeq(s, i, first - 1) \o StripDates(s, first + DateMatchLen(s, first))

MinZoneLetters == 2

\* the match of ([a-zA-Z0-9-]+\.[a-zA-Z]{2,}) that starts at i, or <<>>
DomainMatchAt(s, i) ==
    LET label == RunLen(s, i, LabelChars)
        dot == i + label
        zone == RunLen(s, dot + 1, Letters)
    IN IF label >= 1 /\ dot <= Len(s) /\ s[dot] = "." /\ zone >= MinZoneLetters
       THEN SubSeq(s, i, dot + zone)
       ELSE <<>>

\* re.search(r'([a-zA-Z0-9-]+\.[a-zA-Z]{2,})', s): the leftmost match, or None
DomainSearch(s) ==
    LET starts == { i \in DOMAIN s : DomainMatchAt(s, i) # <<>> }
    IN IF starts = {} THEN None
       ELSE DomainMatchAt(s, CHOOSE i \in starts : \A j \in starts : i <= j)

\* for i in range(min(3, len(parts)), 1, -1): the first valid join of the last i parts
SeparatorDomain(name, separator) ==
    LET parts == Split(name, separator)
        n == Len(parts)
        potential(i) == Join(SubSeq(parts, n - i + 1, n), <<".">>)
        valid == { i \in 2..Min(3, n) : is_valid_domain(potential(i)) }
    IN IF separator \notin Range(name) \/ n < 2 \/ valid = {} THEN None
       ELSE clean_domain(potential(CHOOSE i \in valid : \A j \in valid : i >= j))

extract_domain_from_filename(filename) ==
    LET no_ext == ReplaceEach(Lower(filename), ArchiveSuffixes)
        no_suffix == ReplaceEach(no_ext, BundlingSuffixes)
        name == StripDates(no_suffix, 1)
        domain_match == DomainSearch(name)
    IN IF domain_match # None /\ is_valid_domain(domain_match)
       THEN clean_domain(domain_match)
       ELSE IF SeparatorDomain(name, "-") # None THEN SeparatorDomain(name, "-")
       ELSE IF SeparatorDomain(name, "_") # None THEN SeparatorDomain(name, "_")
       ELSE None

(***************************************************************************)
(* Files of an extracted site.  A file is its name and what the regular    *)
(* expressions of the detectors capture in its decoded content:            *)
(*   priority_hits  the (capture, weight) pairs of extract_priority_domains *)
(*                  in the order the pattern list yields them,             *)
(*   domain_hits    the captures of extract_domains_from_text,             *)
(*   name_hits      the (capture, weight) pairs of detect_site_name's      *)
(*                  patterns, stripped and cut at the separator,           *)
(*   replacements   the count replace_domain_in_text returns for the       *)
(*                  site's own domain.                                     *)
(* `readable` is false for a file no codec of the fallback chain decodes.  *)
(***************************************************************************)
\* os.path.splitext(name)[1]: from the last dot on, when a character that is
\* not a dot precedes it
Splitext(name) ==
    LET dots == { i \in DOMAIN name : name[i] = "." }
        last == CHOOSE i \in dots : \A j \in dots : i >= j
    IN IF dots = {} \/ \A j \in 1..(last - 1) : name[j] = "."
       THEN <<>>
       ELSE SubSeq(name, last, Len(name))

\* DomainDetector.file_weights
file_weights ==
    << <<<<".","h","t","m","l">>, 3>>, <<<<".","h","t","m">>, 3>>, <<<<".","p","h","p">>, 3>>,
       <<<<".","x","m","l">>, 2>>, <<<<".","c","o","n","f">>, 2>>, <<<<".","c","o","n","f","i","g">>, 2>>,
       <<<<".","h","t","a","c","c","e","s","s">>, 2>>, <<<<".","e","n","v">>, 2>>, <<<<".","i","n","i">>, 2>>,
       <<<<".","c","s","s">>, 1>>, <<<<".","j","s">>, 1>>, <<<<".","t","x","t">>, 1>>, <<<<".","j","s","o","n">>, 1>>,
       <<<<".","s","q","l">>, 1>>, <<<<".","y","a","m","l">>, 1>>, <<<<".","y","m","l">>, 1>> >>

\* DomainDetector.text_extensions
text_extensions == { fw[1] : fw \in Range(file_weights) }

\* DomainDetector.is_text_file
is_text_file(filepath) == Lower(Splitext(filepath)) \in text_extensions

\* DomainDetector.get_file_weight
get_file_weight(filepath) ==
    LET ext == Lower(Splitext(filepath))
    IN IF ext \in text_extensions
       THEN (CHOOSE fw \in Range(file_weights) : fw[1] = ext)[2]
       ELSE 1

\* the extensions whose files are searched for priority patterns
priority_extensions == { <<".","h","t","m","l">>, <<".","h","t","m">>, <<".","p","h","p">> }

\* d[key] = max(d.get(key, 0), weight) on a dict kept in insertion order
DictMax(d, key, weight) ==
    IF \E i \in DOMAIN d : d[i][1] = key
    THEN [i \in DOMAIN d |->
            IF d[i][1] = key THEN <<key, Max(d[i][2], weight)>> ELSE d[i]]
    ELSE Append(d, <<key, weight>>)

\* c[key] += weight on a Counter kept in insertion order
CounterAdd(c, key, weight) ==
    IF \E i \in DOMAIN c : c[i][1] = key
    THEN [i \in DOMAIN c |->
            IF c[i][1] = key THEN <<key, c[i][2] + weight>> ELSE c[i]]
    ELSE Append(c, <<key, weight>>)

\* the first key with the largest value: sorted(..., reverse=True)[0] and
\* Counter.most_common(1)[0] both keep the first of equal values
FirstLargest(d) ==
    d[CHOOSE i \in DOMAIN d :
        /\ \A j \in DOMAIN d : d[j][2] <= d[i][2]
        /\ \A j \in 1..(i - 1) : d[j][2] < d[i][2]][1]

RECURSIVE PriorityOfHits(_, _)
\* extract_priority_domains merged into priority_domains
PriorityOfHits(hits, priority_domains) ==
    IF hits = <<>> THEN priority_domains
    ELSE LET clean == clean_domain(Head(hits)[1])
         IN PriorityOfHits(Tail(hits),
               IF Head(hits)[1] # <<>> /\ is_valid_domain(clean)
               THEN DictMax(priority_domains, clean, Head(hits)[2])
               ELSE priority_domains)

RECURSIVE WeightedOfHits(_, _, _)
\* the tally of the frequency captures of one file
WeightedOfHits(hits, file_weight, weighted_domains) ==
    IF hits = <<>> THEN weighted_domains
    ELSE LET clean == clean_domain(Head(hits))
         IN WeightedOfHits(Tail(hits), file_weight,
               IF is_valid_domain(clean)
               THEN CounterAdd(weighted_domains, normalize_to_base_domain(clean), file_weight)
               ELSE weighted_domains)

\* the file is scanned: a text extension and a non-empty decoded content
Scanned(file) == is_text_file(file.name) /\ file.readable

RECURSIVE PriorityOfTree(_, _)
PriorityOfTree(tree, priority_domains) ==
    IF tree = <<>> THEN priority_domains
    ELSE PriorityOfTree(Tail(tree),
            IF Scanned(Head(tree)) /\ Lower(Splitext(Head(tree).name)) \in priority_extensions
            THEN PriorityOfHits(Head(tree).priority_hits, priority_domains)
            ELSE priority_domains)

RECURSIVE WeightedOfTree(_, _)
WeightedOfTree(tree, weighted_domains) ==
    IF tree = <<>> THEN weighted_domains
    ELSE WeightedOfTree(Tail(tree),
            IF Scanned(Head(tree))
            THEN WeightedOfHits(Head(tree).domain_hits, get_file_weight(Head(tree).name),
                                weighted_domains)
            ELSE weighted_domains)

\* a detector that prefers the frequency tally to the priority patterns
detect_by_frequency_first(tree) ==
    LET priority_domains == PriorityOfTree(tree, <<>>)
        weighted_domains == WeightedOfTree(tree, <<>>)
    IN IF weighted_domains # <<>>
       THEN FirstLargest(weighted_domains)
       ELSE IF priority_domains = <<>> THEN None
       ELSE normalize_to_base_domain(FirstLargest(priority_domains))

\* DomainDetector.detect_domain_in_directory(directory)
detect_domain_in_directory(tree) ==
    LET priority_domains == PriorityOfTree(tree, <<>>)
        weighted_domains == WeightedOfTree(tree, <<>>)
    IN IF priority_domains # <<>>
       THEN normalize_to_base_domain(FirstLargest(priority_domains))
       ELSE IF weighted_domains = <<>> THEN None
       ELSE FirstLargest(weighted_domains)

(***************************************************************************)
(* SiteNameReplacer.detect_site_name                                       *)
(***************************************************************************)
generic_words ==
    { <<"h","o","m","e">>, <<"i","n","d","e","x">>, <<"m","a","i","n">>, <<"p","a","g","e">>, <<"s","i","t","e">>, <<"w","e","b","s","i","t","e">>, <<"w","e","l","c","o","m","e">>,
      <<"t","e","s","t">>, <<"d","e","m","o">>, <<"e","x","a","m","p","l","e">>, <<"u","n","t","i","t","l","e","d">>, <<"d","o","c","u","m","e","n","t">>, <<"n","e","w"," ","p","a","g","e">>,
      <<"l","o","a","d","i","n","g">>, <<"e","r","r","o","r">>, <<"4","0","4">>, <<"4","0","3">>, <<"5","0","0">> }

_is_generic_name(name) == Lower(name) \in generic_words

site_name_extensions ==
    { <<".","h","t","m","l">>, <<".","h","t","m">>, <<".","p","h","p">>, <<".","c","s","s">>, <<".","j","s">>, <<".","t","x","t">>,
      <<".","j","s","o","n">>, <<".","x","m","l">>, <<".","s","q","l">>, <<".","c","o","n","f">>, <<".","c","o","n","f","i","g">>,
      <<".","h","t","a","c","c","e","s","s">>, <<".","e","n","v">>, <<".","i","n","i">>, <<".","y","a","m","l">>, <<".","y","m","l">> }

MinNameLen == 2

MaxNameLen == 50

HintBonus == 500

RECURSIVE NamesOfHits(_, _)
NamesOfHits(hits, candidates) ==
    IF hits = <<>> THEN candidates
    ELSE LET name == Head(hits)[1]
         IN NamesOfHits(Tail(hits),
               IF MinNameLen <= Len(name) /\ Len(name) <= MaxNameLen
                  /\ ~_is_generic_name(name)
               THEN CounterAdd(candidates, name, Head(hits)[2])
               ELSE candidates)

RECURSIVE NamesOfTree(_, _)
NamesOfTree(tree, candidates) ==
    IF tree = <<>> THEN candidates
    ELSE NamesOfTree(Tail(tree),
            IF Lower(Splitext(Head(tree).name)) \in site_name_extensions
               /\ Head(tree).readable
            THEN NamesOfHits(Head(tree).name_hits, candidates)
            ELSE candidates)

\* SiteNameReplacer.detect_site_name(directory, domain_hint)
detect_site_name(tree, domain_hint) ==
    LET candidates == NamesOfTree(tree, <<>>)
        domain_name == Lower(Split(domain_hint, ".")[1])
        bonus == [i \in DOMAIN candidates |->
                    IF domain_hint # None /\ domain_hint # <<>>
                       /\ (\/ Contains(Lower(candidates[i][1]), domain_name)
                           \/ Contains(domain_name, Lower(candidates[i][1])))
                    THEN <<candidates[i][1], candidates[i][2] + HintBonus>>
                    ELSE candidates[i]]
    IN IF bonus = <<>> THEN None ELSE FirstLargest(bonus)

(***************************************************************************)
(* FileProcessor: the extension tables and the statistics.                 *)
(***************************************************************************)
fp_text_extensions ==
    { <<".","h","t","m","l">>, <<".","h","t","m">>, <<".","p","h","p">>, <<".","c","s","s">>, <<".","j","s">>, <<".","t","x","t">>,
      <<".","j","s","o","n">>, <<".","x","m","l">>, <<".","s","q","l">>, <<".","c","o","n","f">>, <<".","c","o","n","f","i","g">>,
      <<".","h","t","a","c","c","e","s","s">>, <<".","e","n","v">>, <<".","i","n","i">>, <<".","y","a","m","l">>, <<".","y","m","l">>,
      <<".","m","d">>, <<".","r","s","t">>, <<".","p","y">>, <<".","j","a","v","a">>, <<".","c","p","p">>, <<".","c">>, <<".","h">> }

fp_binary_extensions ==
    { <<".","j","p","g">>, <<".","j","p","e","g">>, <<".","p","n","g">>, <<".","g","i","f">>, <<".","b","m","p">>, <<".","i","c","o">>,
      <<".","p","d","f">>, <<".","d","o","c">>, <<".","d","o","c","x">>, <<".","x","l","s">>, <<".","x","l","s","x">>,
      <<".","z","i","p">>, <<".","r","a","r">>, <<".","7","z">>, <<".","t","a","r">>, <<".","g","z">>,
      <<".","m","p","3">>, <<".","m","p","4">>, <<".","a","v","i">>, <<".","m","o","v">>, <<".","f","l","v">>,
      <<".","e","x","e">>, <<".","d","l","l">>, <<".","s","o">>, <<".","d","y","l","i","b">> }

\* FileProcessor.is_text_file: the extension tables, then the null-byte sniff
fp_is_text_file(file) ==
    LET ext_lower == Lower(Splitext(file.name))
    IN IF ext_lower \in fp_binary_extensions THEN FALSE
       ELSE IF ext_lower \in fp_text_extensions THEN TRUE
       ELSE file.readable /\ ~file.has_null_byte

EmptyStats ==
    [total_files |-> 0, processed_files |-> 0, skipped_files |-> 0,
     error_files |-> 0, total_replacements |-> 0, errors |-> <<>>]

(***************************************************************************)
(* Regular expressions of the rewriting passes.  A pattern is a list of    *)
(* literal alternatives in the order the regex engine tries them, with an  *)
(* optional \b before and after and re.IGNORECASE.                         *)
(***************************************************************************)
AtSign == <<"@">>

\* \w
WordChars == Letters \cup Digits \cup {"_"}

\* \b before the character at position i (1-based; i = Len(s) + 1 is the end)
WordBoundary(s, i) ==
    LET before == i >= 2 /\ i - 1 <= Len(s) /\ s[i - 1] \in WordChars
        after == i >= 1 /\ i <= Len(s) /\ s[i] \in WordChars
    IN before # after

\* the literal matches at position i
LiteralAt(s, literal, i, ignorecase) ==
    /\ i + Len(literal) - 1 <= Len(s)
    /\ IF ignorecase
       THEN Lower(SubSeq(s, i, i + Len(literal) - 1)) = Lower(literal)
       ELSE SubSeq(s, i, i + Len(literal) - 1) = literal

\* the alternatives of the pattern that match at position i
MatchingAt(s, pattern, i) ==
    { k \in DOMAIN pattern.alternatives :
        /\ LiteralAt(s, pattern.alternatives[k], i, pattern.ignorecase)
        /\ pattern.word_start => WordBoundary(s, i)
        /\ pattern.word_end => WordBoundary(s, i + Len(pattern.alternatives[k])) }

\* the length of the match at position i, 0 when there is none
MatchLen(s, pattern, i) ==
    LET ks == MatchingAt(s, pattern, i)
    IN IF ks = {} THEN 0
       ELSE Len(pattern.alternatives[CHOOSE k \in ks : \A j \in ks : k <= j])

RECURSIVE SubnFrom(_, _, _, _)
SubnFrom(s, pattern, replacement, i) ==
    LET starts == { j \in i..Len(s) : MatchLen(s, pattern, j) > 0 }
    IN IF starts = {} THEN [text |-> SubSeq(s, i, Len(s)), count |-> 0]
       ELSE LET first == CHOOSE j \in starts : \A k \in starts : j <= k
                rest == SubnFrom(s, pattern, replacement,
                                 first + MatchLen(s, pattern, first))
            IN [text |-> SubSeq(s, i, first - 1) \o replacement \o rest.text,
                count |-> rest.count + 1]

\* pattern.subn(replacement, s): leftmost, non-overlapping
Subn(s, pattern, replacement) == SubnFrom(s, pattern, replacement, 1)

(***************************************************************************)
(* FileProcessor.replace_domain_in_text                                    *)
(***************************************************************************)
\* domain.replace('www.', '').replace('http://', '').replace('https://', '')
StripWwwAndProtocol(domain) ==
    Replace(Replace(Replace(domain, <<"w","w","w",".">>, <<>>), <<"h","t","t","p",":","/","/">>, <<>>),
            <<"h","t","t","p","s",":","/","/">>, <<>>)

\* the four passes: the pattern and what its matches are replaced by
domain_patterns(old_clean, new_clean) ==
    << [pattern |-> [alternatives |-> << <<"h","t","t","p","s",":","/","/","w","w","w",".">> \o old_clean,
                                          <<"h","t","t","p","s",":","/","/">> \o old_clean,
                                          <<"h","t","t","p",":","/","/","w","w","w",".">> \o old_clean,
                                          <<"h","t","t","p",":","/","/">> \o old_clean >>,
                     word_start |-> FALSE, word_end |-> FALSE, ignorecase |-> TRUE],
        replacement |-> <<"h","t","t","p","s",":","/","/">> \o new_clean],
       [pattern |-> [alternatives |-> << <<"w","w","w",".">> \o old_clean >>,
                     word_start |-> TRUE, word_end |-> FALSE, ignorecase |-> TRUE],
        replacement |-> <<"w","w","w",".">> \o new_clean],
       [pattern |-> [alternatives |-> << old_clean >>,
                     word_start |-> TRUE, word_end |-> TRUE, ignorecase |-> TRUE],
        replacement |-> new_clean],
       [pattern |-> [alternatives |-> << AtSign \o old_clean >>,
                     word_start |-> FALSE, word_end |-> FALSE, ignorecase |-> TRUE],
        replacement |-> AtSign \o new_clean] >>

RECURSIVE ApplyPasses(_, _)
\* for pattern, replacement in patterns: subn, and the counts added up
ApplyPasses(text, passes) ==
    IF passes = <<>> THEN [text |-> text, count |-> 0]
    ELSE LET first == Subn(text, Head(passes).pattern, Head(passes).replacement)
             rest == ApplyPasses(first.text, Tail(passes))
         IN [text |-> rest.text, count |-> first.count + rest.count]

\* a rewriting that returns the count of its last pass alone
replace_domain_in_text_last_count(text, old_domain, new_domain) ==
    LET old_clean == StripWwwAndProtocol(old_domain)
        new_clean == StripWwwAndProtocol(new_domain)
        passes == domain_patterns(old_clean, new_clean)
        done == ApplyPasses(text, passes)
    IN [text |-> done.text,
        count |-> Subn(done.text, passes[Len(passes)].pattern,
                       passes[Len(passes)].replacement).count]

\* FileProcessor.replace_domain_in_text(text, old_domain, new_domain)
replace_domain_in_text(text, old_domain, new_domain) ==
    ApplyPasses(text, domain_patterns(StripWwwAndProtocol(old_domain),
                                      StripWwwAndProtocol(new_domain)))

\* the ways open(filepath, 'w') followed by f.write(...) can end: the content
\* is replaced, open raises and the file is untouched, or write raises after
\* open has truncated the file
WriteOutcomes == {"written", "open_fails", "write_fails"}

\* process_file, lines 165-181: the file is written only if something was
\* replaced; `rewritten` is what replace_domain_in_text returned
WriteBack(file, rewritten, write) ==
    LET result == [success |-> FALSE, replacements |-> 0, error |-> None]
    IN IF rewritten.count > 0
       THEN IF write = "written"
            THEN [result |-> [result EXCEPT !.success = TRUE,
                                            !.replacements = rewritten.count],
                  file |-> [file EXCEPT !.content = rewritten.text]]
            ELSE [result |-> [result EXCEPT !.error = <<"cannot_write_file: OSError">>],
                  file |-> IF write = "open_fails" THEN file
                           ELSE [file EXCEPT !.content = <<>>]]
       ELSE [result |-> [result EXCEPT !.success = TRUE], file |-> file]

\* a process_file that writes the text back whatever the count
process_file_writing_always(file, old_domain, new_domain, write) ==
    LET result == [success |-> FALSE, replacements |-> 0, error |-> None]
        rewritten == replace_domain_in_text(file.content, old_domain, new_domain)
    IN IF ~file.readable
       THEN [result |-> [result EXCEPT !.error = <<"cannot_read_file">>], file |-> file]
       ELSE IF write = "written"
       THEN [result |-> [result EXCEPT !.success = TRUE,
                                       !.replacements = rewritten.count],
             file |-> [file EXCEPT !.content = rewritten.text]]
       ELSE [result |-> [result EXCEPT !.error = <<"cannot_write_file: OSError">>],
             file |-> IF write = "open_fails" THEN file
                      ELSE [file EXCEPT !.content = <<>>]]

\* FileProcessor.process_file(filepath, old_domain, new_domain): the returned
\* dict and the file as it is left on disk
process_file(file, old_domain, new_domain, write) ==
    LET result == [success |-> FALSE, replacements |-> 0, error |-> None]
    IN IF ~fp_is_text_file(file)
       THEN [result |-> [result EXCEPT !.success = TRUE,
                                       !.error = <<"binary_file_skipped">>],
             file |-> file]
       ELSE IF ~file.readable
       THEN [result |-> [result EXCEPT !.error = <<"cannot_read_file">>], file |-> file]
       ELSE WriteBack(file, replace_domain_in_text(file.content, old_domain, new_domain),
                      write)

\* process_directory, lines 211-229: the stats and the files after one more
\* file, `done` being what process_file made of it
CountFile(walked, file_name, done) ==
    LET counted == [walked.stats EXCEPT !.total_files = @ + 1]
    IN [stats |->
           IF done.result.success
           THEN IF done.result.error = <<"binary_file_skipped">>
                THEN [counted EXCEPT !.skipped_files = @ + 1]
                ELSE [counted EXCEPT !.processed_files = @ + 1,
                                     !.total_replacements = @ + done.result.replacements]
           ELSE [counted EXCEPT !.error_files = @ + 1,
                                !.errors = Append(@, [file |-> file_name,
                                                      error |-> done.result.error])],
        tree |-> Append(walked.tree, done.file)]

\* a walk that ends at the first file process_file fails on
RECURSIVE process_directory_stopping_at_failure(_, _, _, _)
process_directory_stopping_at_failure(tree, old_domain, new_domain, writes) ==
    IF tree = <<>> THEN [stats |-> EmptyStats, tree |-> <<>>]
    ELSE LET n == Len(tree)
             walked == process_directory_stopping_at_failure(
                           SubSeq(tree, 1, n - 1), old_domain, new_domain,
                           SubSeq(writes, 1, n - 1))
             done == process_file(tree[n], old_domain, new_domain, writes[n])
             counted == [walked.stats EXCEPT !.total_files = @ + 1]
         IN IF walked.stats.error_files > 0
            THEN [stats |-> walked.stats, tree |-> Append(walked.tree, tree[n])]
            ELSE IF done.result.success
            THEN [stats |-> [counted EXCEPT !.processed_files = @ + 1,
                                            !.total_replacements = @ + done.result.replacements],
                  tree |-> Append(walked.tree, done.file)]
            ELSE [stats |-> [counted EXCEPT !.error_files = @ + 1,
                                            !.errors = Append(@, [file |-> tree[n].name,
                                                                  error |-> done.result.error])],
                  tree |-> Append(walked.tree, done.file)]

\* FileProcessor.process_directory(directory, old_domain, new_domain): the
\* returned stats and the files as the walk leaves them; writes[i] is how the
\* write of the i-th file ends if process_file comes to it
RECURSIVE process_directory(_, _, _, _)
process_directory(tree, old_domain, new_domain, writes) ==
    IF tree = <<>> THEN [stats |-> EmptyStats, tree |-> <<>>]
    ELSE CountFile(process_directory(SubSeq(tree, 1, Len(tree) - 1), old_domain,
                                     new_domain, SubSeq(writes, 1, Len(tree) - 1)),
                   tree[Len(tree)].name,
                   process_file(tree[Len(tree)], old_domain, new_domain,
                                writes[Len(tree)]))

(***************************************************************************)
(* SiteNameReplacer.replace_site_name_in_text                              *)
(***************************************************************************)
\* str.capitalize()
Capitalize(s) ==
    IF s = <<>> THEN <<>> ELSE <<UpperChar(s[1])>> \o Lower(Tail(s))

\* the loop over list(set(variants)): the order of a set of tuples of strings
\* follows the strings' hashes, which differ from one interpreter run to the
\* next, so every order of the remaining pairs is possible
RECURSIVE ReplaceVariants(_, _, _)
ReplaceVariants(text, replacements, variants) ==
    IF variants = {} THEN { [text |-> text, count |-> replacements] }
    ELSE UNION {
           IF v[1] = v[2]
           THEN ReplaceVariants(text, replacements, variants \ {v})
           ELSE LET pattern == [alternatives |-> <<v[1]>>, word_start |-> TRUE,
                                word_end |-> TRUE, ignorecase |-> FALSE]
                    done == Subn(text, pattern, v[2])
                IN ReplaceVariants(done.text, replacements + done.count, variants \ {v})
           : v \in variants }

\* a replacement of the name as given only
replace_site_name_exact_only(text, old_name, new_name) ==
    IF old_name = <<>> \/ new_name = <<>>
    THEN { [text |-> text, count |-> 0] }
    ELSE ReplaceVariants(text, 0, { <<old_name, new_name>> })

\* the set of the results replace_site_name_in_text can return
replace_site_name_in_text(text, old_name, new_name) ==
    IF old_name = <<>> \/ new_name = <<>>
    THEN { [text |-> text, count |-> 0] }
    ELSE ReplaceVariants(text, 0,
            { <<old_name, new_name>>,
              <<Lower(old_name), Lower(new_name)>>,
              <<Upper(old_name), Upper(new_name)>>,
              <<Capitalize(old_name), Capitalize(new_name)>> })

(***************************************************************************)
(* Python call binding: a call raises TypeError, before the body runs,     *)
(* when it passes more positional arguments than the signature has         *)
(* parameters, names a keyword that is no parameter, or leaves a parameter *)
(* without default unbound.  Signatures list the parameters after self.    *)
(***************************************************************************)
\* def detect_domain_in_directory(self, directory: str)
detect_domain_in_directory_signature ==
    [params |-> <<"directory">>, defaults |-> 0]

\* def process_directory(self, directory: str, old_domain: str, new_domain: str)
process_directory_signature ==
    [params |-> <<"directory", "old_domain", "new_domain">>, defaults |-> 0]

Binds(signature, positional, keywords) ==
    LET n == Len(signature.params)
        by_position == { signature.params[i] : i \in 1..Min(positional, n) }
    IN /\ positional <= n
       /\ keywords \subseteq Range(signature.params) \ by_position
       /\ \A i \in 1..(n - signature.defaults) :
             signature.params[i] \in by_position \cup keywords

\* batch_processor.py:84  detect_domain_in_directory(extract_dir, hint_from_filename=hint)
DetectCallBinds == Binds(detect_domain_in_directory_signature, 1, {"hint_from_filename"})

\* batch_processor.py:123 process_directory(copy_dir, original_domain, new_domain,
\*                                          original_site_name, new_site_name)
ProcessDirectoryCallBinds == Binds(process_directory_signature, 5, {})

(***************************************************************************)
(* Messages of the results: str(e) of an exception, or the fixed reasons.  *)
(***************************************************************************)
\* 'Ошибка распаковки архива'
ExtractionFailed == <<"Oshibka raspakovki arhiva">>

\* 'Не удалось определить домен'
DomainNotFound == <<"Ne udalos opredelit domen">>

DetectTypeError ==
    <<"DomainDetector.detect_domain_in_directory() got an unexpected keyword argument 'hint_from_filename'">>

ProcessDirectoryTypeError ==
    <<"FileProcessor.process_directory() takes 4 positional arguments but 6 were given">>

\* what the progress callback raises
CallbackError == <<"progress callback raised">>

\* what os.makedirs or tempfile.mkdtemp raises
OSErrorMessage == <<"OSError">>

\* the 'archive' of the entry the top-level handler appends
General == <<"g","e","n","e","r","a","l">>

(***************************************************************************)
(* Inputs of the model.                                                    *)
(***************************************************************************)
ZoneCom == <<".","c","o","m">>

ZoneInfo == <<".","i","n","f","o">>

\* the zone selection of the invocation surface
Zones == {ZoneCom, ZoneInfo}

\* original domains handed to the generator
Originals ==
    { <<"s","k","y",".","n","e","t">>,
      <<"h","t","t","p",":","/","/","w","w","w",".","F","l","y",".","i","o">> }

\* the words files a generator is constructed with
Dictionaries == {SmallDictionary}

\* the files of the sample sites
SkyIndex ==
    [name |-> <<"i","n","d","e","x",".","h","t","m","l">>, readable |-> TRUE, has_null_byte |-> FALSE,
     priority_hits |-> << <<<<"s","k","y",".","n","e","t">>, 90>> >>,
     domain_hits |-> <<<<"s","k","y",".","n","e","t">>, <<"w","w","w",".","s","k","y",".","n","e","t">>, <<"g","o","o","g","l","e",".","c","o","m">>>>,
     name_hits |-> << <<<<"S","k","y">>, 100>> >>,
     content |-> <<"S","k","y"," ","h","t","t","p","s",":","/","/","s","k","y",".","n","e","t"," ","w","w","w",".","s","k","y",".","n","e","t">>,
     replacements |-> 2]

FlyIndex ==
    [name |-> <<"i","n","d","e","x",".","p","h","p">>, readable |-> TRUE, has_null_byte |-> FALSE,
     priority_hits |-> <<>>,
     domain_hits |-> <<<<"f","l","y",".","i","o">>, <<"c","d","n",".","f","l","y",".","i","o">>>>,
     name_hits |-> << <<<<"F","l","y">>, 50>> >>,
     content |-> <<"F","l","y"," ","f","l","y",".","i","o"," ","c","d","n",".","f","l","y",".","i","o">>,
     replacements |-> 2]

OldIndex ==
    [name |-> <<"i","n","d","e","x",".","h","t","m">>, readable |-> TRUE, has_null_byte |-> FALSE,
     priority_hits |-> << <<<<"o","l","d",".","o","r","g">>, 100>> >>,
     domain_hits |-> <<<<"o","l","d",".","o","r","g">>>>,
     name_hits |-> <<>>,
     content |-> <<"h","t","t","p",":","/","/","o","l","d",".","o","r","g">>,
     replacements |-> 1]

Logo ==
    [name |-> <<"l","o","g","o",".","p","n","g">>, readable |-> FALSE, has_null_byte |-> TRUE,
     priority_hits |-> <<>>, domain_hits |-> <<>>, name_hits |-> <<>>,
     content |-> <<>>,
     replacements |-> 0]

\* the archives a batch is made of: the file name, whether the container is
\* damaged, and the files it holds
SampleArchives ==
    { [name |-> <<"s","k","y",".","n","e","t",".","z","i","p">>, corrupt |-> FALSE, tree |-> <<SkyIndex, Logo>>],
      [name |-> <<"f","l","y","_","i","o","_","2","0","2","4",".","r","a","r">>, corrupt |-> FALSE, tree |-> <<FlyIndex>>],
      [name |-> <<"f","l","y",".","i","o",".","z","i","p">>, corrupt |-> TRUE, tree |-> <<FlyIndex>>],
      [name |-> <<"b","a","c","k","u","p",".","z","i","p">>, corrupt |-> FALSE, tree |-> <<OldIndex, Logo>>],
      [name |-> <<"p","h","o","t","o","s",".","z","i","p">>, corrupt |-> FALSE, tree |-> <<Logo>>] }

\* the lists of at most n archives
ArchiveLists(n) == UNION { [1..k -> SampleArchives] : k \in 0..n }

\* progress_callback: absent, a callback that returns, or one that may raise
Callbacks == {"none", "reliable", "faulty"}

(***************************************************************************)
(* The file system: the paths that exist, each with the files it holds.    *)
(* A path is the sequence of its components.                               *)
(***************************************************************************)
\* tempfile.mkdtemp(prefix="duplicator_")
TempBase == << <<"d","u","p","l","i","c","a","t","o","r","_">> >>

OutputDir == << <<"o","u","t","p","u","t">> >>

DigitChars == <<"0","1","2","3","4","5","6","7","8","9">>

\* str(i) for 0 <= i <= 99
IntChars(i) ==
    IF i < 10 THEN <<DigitChars[i + 1]>>
    ELSE <<DigitChars[(i \div 10) + 1], DigitChars[(i % 10) + 1]>>

\* os.path.join(temp_base_dir, "archive_<timestamp>"): one per archive
ArchiveTempDir(idx) == Append(TempBase, <<"a","r","c","h","i","v","e","_">> \o IntChars(idx))

ExtractDir(idx) == Append(ArchiveTempDir(idx), <<"e","x","t","r","a","c","t","e","d">>)

CopyDir(idx, i) == Append(ArchiveTempDir(idx), <<"c","o","p","y","_">> \o IntChars(i))

\* os.path.join(output_dir, "duplicates_<timestamp>.zip")
MasterArchivePath == Append(OutputDir, <<"d","u","p","l","i","c","a","t","e","s",".","z","i","p">>)

IsPrefix(p, q) == Len(p) <= Len(q) /\ SubSeq(q, 1, Len(p)) = p

\* the file system with `path` holding `content`
WithPath(files, path, content) ==
    [q \in DOMAIN files \cup {path} |-> IF q = path THEN content ELSE files[q]]

\* os.makedirs(path, exist_ok=True): the path and the parents it lacks
Makedirs(files, path) ==
    [q \in DOMAIN files \cup { SubSeq(path, 1, k) : k \in 1..Len(path) } |->
        IF q \in DOMAIN files THEN files[q] ELSE <<>>]

\* shutil.rmtree(path)
Rmtree(files, path) ==
    [q \in { r \in DOMAIN files : ~IsPrefix(path, r) } |-> files[q]]

(***************************************************************************)
(* ArchiveHandler                                                          *)
(***************************************************************************)
get_archive_type(filepath) ==
    LET ext == Lower(Splitext(filepath))
    IN IF ext = <<".","z","i","p">> THEN <<"zip">>
       ELSE IF ext = <<".","r","a","r">> THEN <<"rar">>
       ELSE None

\* extract_archive returns True exactly when the type is supported and the
\* container unpacks
ExtractSucceeds(archive) ==
    get_archive_type(archive.name) \in {<<"zip">>, <<"rar">>} /\ ~archive.corrupt

\* the file system after extract_archive(archive, extract_to)
extract_archive(files, archive, extract_to) ==
    IF ExtractSucceeds(archive)
    THEN WithPath(Makedirs(files, extract_to), extract_to, archive.tree)
    ELSE Makedirs(files, extract_to)

\* get_archive_name_from_domain
get_archive_name_from_domain(domain) ==
    Replace(Replace(domain, <<"/">>, <<"_">>), <<"\\">>, <<"_">>) \o <<".","z","i","p">>

\* the file system after cleanup_directory(directory); `removable` is false
\* when shutil.rmtree raises, which cleanup_directory swallows
cleanup_directory(files, directory, removable) ==
    IF directory \in DOMAIN files /\ removable THEN Rmtree(files, directory) ELSE files

(***************************************************************************)
(* State.                                                                  *)
(***************************************************************************)
VARIABLES
    dictionary,         \* DomainGenerator: short_words, random_consonants, ...
    generated_domains,  \* DomainGenerator.generated_domains
    gen_pc,             \* "idle", or "attempt" inside generate_domain's retry loop
    gen_call,           \* arguments and locals of the generate_domains call
    attempt,            \* the retry loop's counter
    domains,            \* the list generate_domains builds and returns
    calls,              \* generate_domain calls made so far
    loop_returns,       \* bag of the full domains the retry loop returned since reset
    archives,           \* process_multiple_archives: the archives argument
    copies_count,       \* ... the copies_count argument
    domain_zone,        \* ... the domain_zone argument
    progress_callback,  \* ... the progress_callback argument
    pc,                 \* the position in process_multiple_archives
    idx,                \* the index of the archive loop
    overall_result,     \* the dict process_multiple_archives returns
    all_generated_archives, \* the paths collected for the master archive
    result,             \* the dict of the process_single_archive call in progress
    fs,                 \* the file system: path -> files
    top_exception,      \* str(e) of the exception the top-level handler caught
    pack_calls,         \* create_master_archive calls made
    zips_created,       \* create_zip_archive calls that returned True
    detect_calls,       \* the archive indices whose line-84 call of the detector was made
    emitted_before_reset, \* history: the domains generated_domains held at a reset
    word1,              \* strategy_pure_nutra_combination: word1 while its loop redraws word2
    request,            \* the call made on the text components: its name and arguments
    response,           \* <<>> until the call returns, then the returned value in a tuple
    disk,               \* the file the process_file call works on, as stored
    threads             \* the generate_domain calls of threads that share the generator

gen_vars == <<dictionary, generated_domains, gen_pc, gen_call, attempt, domains,
              calls, loop_returns, emitted_before_reset, word1>>

input_vars == <<archives, copies_count, domain_zone, progress_callback>>

batch_vars == <<pc, idx, overall_result, all_generated_archives, result, fs,
                top_exception, pack_calls, zips_created, detect_calls>>

text_vars == <<request, response, disk>>

thread_vars == <<threads>>

vars == <<gen_vars, input_vars, thread_vars, batch_vars, text_vars>>

NoCall == [original |-> <<>>, count |-> 0, zone |-> <<>>, parts |-> {}]

\* the threads that call generate_domain on one DomainGenerator
Threads == {1, 2}

\* no thread has called generate_domain
NoThreads ==
    [t \in Threads |-> [pc |-> "idle", zone |-> <<>>, parts |-> {}, attempt |-> 0,
                        full_domain |-> <<>>, returned |-> <<>>, from_loop |-> FALSE]]

\* the dict process_multiple_archives starts from
InitialOverallResult ==
    [success |-> FALSE, archives_processed |-> 0, archives_failed |-> 0,
     total_sites_created |-> 0, master_archive_path |-> None,
     results |-> <<>>, errors |-> <<>>]

\* a result dict that starts as a success
InitialResultSucceeding(archive_name) ==
    [success |-> TRUE, archive_name |-> archive_name, original_domain |-> None,
     generated_archives |-> <<>>, error |-> None, stats |-> <<>>]

\* the dict process_single_archive starts from
InitialResult(archive_name) ==
    [success |-> FALSE, archive_name |-> archive_name, original_domain |-> None,
     generated_archives |-> <<>>, error |-> None, stats |-> <<>>]

\* a file of no name and no content
NoFile == [name |-> <<>>, content |-> <<>>, readable |-> FALSE, has_null_byte |-> FALSE]

\* no call is made on the text components
TextIdle ==
    /\ request = [op |-> "none"]
    /\ response = <<>>
    /\ disk = NoFile

\* no batch is running
BatchIdle ==
    /\ archives = <<>>
    /\ copies_count = 1
    /\ domain_zone = ZoneCom
    /\ progress_callback = "none"
    /\ pc = "idle"
    /\ idx = 0
    /\ overall_result = InitialOverallResult
    /\ all_generated_archives = <<>>
    /\ result = InitialResult(<<>>)
    /\ fs = [p \in {} |-> <<>>]
    /\ top_exception = None
    /\ pack_calls = 0
    /\ zips_created = 0
    /\ detect_calls = {}

\* DomainGenerator.__init__
GenInit ==
    /\ BatchIdle
    /\ TextIdle
    /\ dictionary \in Dictionaries
    /\ generated_domains = {}
    /\ gen_pc = "idle"
    /\ gen_call = NoCall
    /\ attempt = 0
    /\ domains = <<>>
    /\ emitted_before_reset = {}
    /\ word1 = None
    /\ threads = NoThreads
    /\ calls = 0
    /\ loop_returns = [d \in {} |-> 0]

\* the bag b with one more copy of d
BagAdd(b, d) ==
    [x \in DOMAIN b \cup {d} |->
        IF x \in DOMAIN b THEN b[x] + (IF x = d THEN 1 ELSE 0) ELSE 1]

\* generate_domains: the call, up to the first generate_domain
GenerateDomains(original_domain, count, zone) ==
    /\ gen_pc = "idle"
    /\ calls + count <= MaxCalls
    /\ gen_call' = [original |-> original_domain, count |-> count, zone |-> zone,
                    parts |-> extract_parts(clean_original(original_domain))]
    /\ domains' = <<>>
    /\ attempt' = 0
    /\ gen_pc' = "attempt"
    /\ UNCHANGED <<dictionary, generated_domains, calls, loop_returns,
                   emitted_before_reset, word1>>
    /\ UNCHANGED <<input_vars, thread_vars, batch_vars, text_vars>>

\* a retry loop that does not look at generated_domains
IsFreshUnchecked(full_domain, generated) == TRUE

\* the uniqueness test of the retry loop
IsFresh(full_domain, generated) == full_domain \notin generated

\* the acceptance test of the retry loop
Accepts(new_domain, zone, generated) ==
    validate_domain(new_domain) /\ IsFresh(new_domain \o zone, generated)

\* generate_domain returns `full_domain` to generate_domains, which appends it
\* and either calls generate_domain again or returns the list
ReturnDomain(full_domain) ==
    /\ domains' = Append(domains, full_domain)
    /\ calls' = calls + 1
    /\ attempt' = 0
    /\ gen_pc' = IF Len(domains) + 1 >= gen_call.count THEN "idle" ELSE "attempt"

\* lines 211-217: the drawn new_domain is accepted and returned, or the
\* iteration ends and the next one begins
Conclude(new_domain) ==
    /\ IF Accepts(new_domain, gen_call.zone, generated_domains)
       THEN /\ generated_domains' = generated_domains \cup {new_domain \o gen_call.zone}
            /\ loop_returns' = BagAdd(loop_returns, new_domain \o gen_call.zone)
            /\ ReturnDomain(new_domain \o gen_call.zone)
       ELSE /\ attempt' = attempt + 1
            /\ gen_pc' = "attempt"
            /\ UNCHANGED <<generated_domains, domains, calls, loop_returns>>
    /\ word1' = None
    /\ UNCHANGED <<dictionary, gen_call, emitted_before_reset>>

\* one iteration of the retry loop: a strategy draws new_domain, or
\* strategy_pure_nutra_combination draws word2 equal to word1 and enters its
\* while loop
Attempt ==
    /\ gen_pc = "attempt"
    /\ attempt < max_attempts
    /\ \/ \E new_domain \in AttemptDraws(dictionary, gen_call.parts) :
             Conclude(new_domain)
       \/ /\ "pure_nutra_combination" \in ChosenStrategies
          /\ \E word \in Words(dictionary) : word1' = word
          /\ gen_pc' = "redraw"
          /\ UNCHANGED <<dictionary, generated_domains, gen_call, attempt, domains,
                         calls, loop_returns, emitted_before_reset>>
    /\ UNCHANGED <<input_vars, thread_vars, batch_vars, text_vars>>

\* while word2 == word1: word2 = random.choice(self.short_words); the loop
\* is left with the first word2 that differs, and the iteration goes on
Redraw ==
    /\ gen_pc = "redraw"
    /\ \E word2 \in Words(dictionary) :
          IF word2 = word1
          THEN UNCHANGED gen_vars
          ELSE Conclude(Lower(word1 \o word2))
    /\ UNCHANGED <<input_vars, thread_vars, batch_vars, text_vars>>

\* the retry loop is exhausted: the fallback is returned and not recorded
Fallback ==
    /\ gen_pc = "attempt"
    /\ attempt = max_attempts
    /\ \E fallback \in FallbackDraws(dictionary, gen_call.parts) :
          ReturnDomain(fallback \o gen_call.zone)
    /\ UNCHANGED <<dictionary, generated_domains, gen_call, loop_returns,
                   emitted_before_reset, word1>>
    /\ UNCHANGED <<input_vars, thread_vars, batch_vars, text_vars>>

\* a reset that leaves generated_domains as it is
ResetKeepingEmitted ==
    /\ gen_pc = "idle"
    /\ generated_domains # {}
    /\ emitted_before_reset' = emitted_before_reset \cup generated_domains
    /\ UNCHANGED <<dictionary, generated_domains, loop_returns, gen_pc, gen_call,
                   attempt, domains, calls, word1>>
    /\ UNCHANGED <<input_vars, thread_vars, batch_vars, text_vars>>

\* DomainGenerator.reset
Reset ==
    /\ gen_pc = "idle"
    /\ generated_domains # {}
    /\ generated_domains' = {}
    /\ loop_returns' = [d \in {} |-> 0]
    /\ emitted_before_reset' = emitted_before_reset \cup generated_domains
    /\ UNCHANGED <<dictionary, gen_pc, gen_call, attempt, domains, calls, word1>>
    /\ UNCHANGED <<input_vars, thread_vars, batch_vars, text_vars>>

GenNext ==
    \/ \E original_domain \in Originals, count \in 1..MaxCopies, zone \in Zones :
          GenerateDomains(original_domain, count, zone)
    \/ Attempt
    \/ Redraw
    \/ Fallback
    \/ Reset

SpecGen == GenInit /\ [][GenNext]_vars

\* a words file with a single word
OneWordDictionary ==
    [ short_words |-> << <<"z","e","n">> >>,
      random_consonants |-> <<"x">>,
      random_vowels |-> <<"a","e","i","o","u","y">>,
      vowel_replacements |-> [c \in {} |-> <<>>] ]

\* DomainGenerator.__init__ on any of the words files
GenInitAnyWords ==
    /\ BatchIdle
    /\ TextIdle
    /\ dictionary \in Dictionaries \cup {OneWordDictionary}
    /\ generated_domains = {}
    /\ gen_pc = "idle"
    /\ gen_call = NoCall
    /\ attempt = 0
    /\ domains = <<>>
    /\ calls = 0
    /\ loop_returns = [d \in {} |-> 0]
    /\ emitted_before_reset = {}
    /\ word1 = None
    /\ threads = NoThreads

\* the generator with a random source that does not withhold an outcome for
\* ever: a loop iteration that can make progress eventually does
SpecGenFair ==
    /\ GenInitAnyWords
    /\ [][GenNext]_vars
    /\ WF_vars(Attempt)
    /\ WF_vars(Redraw)
    /\ WF_vars(Fallback)

\* generate_domain as a thread runs it, a statement at a time, on a generator
\* other threads are calling too.  The class holds no lock.
ThreadCall(t, original_domain, zone) ==
    /\ threads[t].pc = "idle"
    /\ threads' = [threads EXCEPT ![t] =
                      [pc |-> "attempt", zone |-> zone, attempt |-> 0,
                       parts |-> extract_parts(clean_original(original_domain)),
                       full_domain |-> <<>>, returned |-> <<>>, from_loop |-> FALSE]]
    /\ UNCHANGED <<gen_vars, input_vars, batch_vars, text_vars>>

\* lines 208-213: a draw and the test of the candidate
ThreadAttempt(t) ==
    /\ threads[t].pc = "attempt"
    /\ threads[t].attempt < max_attempts
    /\ \E new_domain \in AttemptDraws(dictionary, threads[t].parts) :
          threads' = [threads EXCEPT ![t] =
                         IF Accepts(new_domain, threads[t].zone, generated_domains)
                         THEN [threads[t] EXCEPT !.pc = "add",
                                                 !.full_domain = new_domain \o threads[t].zone]
                         ELSE [threads[t] EXCEPT !.attempt = @ + 1]]
    /\ UNCHANGED <<gen_vars, input_vars, batch_vars, text_vars>>

\* lines 216-217: self.generated_domains.add(full_domain); return full_domain
ThreadAdd(t) ==
    /\ threads[t].pc = "add"
    /\ generated_domains' = generated_domains \cup {threads[t].full_domain}
    /\ threads' = [threads EXCEPT ![t] =
                      [threads[t] EXCEPT !.pc = "done",
                                         !.returned = threads[t].full_domain,
                                         !.from_loop = TRUE]]
    /\ UNCHANGED <<dictionary, gen_pc, gen_call, attempt, domains, calls, loop_returns,
                   emitted_before_reset, word1>>
    /\ UNCHANGED <<input_vars, batch_vars, text_vars>>

\* lines 219-225: the fallback after the loop
ThreadFallback(t) ==
    /\ threads[t].pc = "attempt"
    /\ threads[t].attempt = max_attempts
    /\ \E fallback \in FallbackDraws(dictionary, threads[t].parts) :
          threads' = [threads EXCEPT ![t] =
                         [threads[t] EXCEPT !.pc = "done",
                                            !.returned = fallback \o threads[t].zone]]
    /\ UNCHANGED <<gen_vars, input_vars, batch_vars, text_vars>>

ThreadsNext ==
    \E t \in Threads :
        \/ \E zone \in Zones : ThreadCall(t, <<"s","k","y",".","n","e","t">>, zone)
        \/ ThreadAttempt(t)
        \/ ThreadAdd(t)
        \/ ThreadFallback(t)

SpecThreads == GenInit /\ [][ThreadsNext]_vars

(***************************************************************************)
(* The text components called on their own: FileProcessor.process_file and *)
(* replace_domain_in_text, SiteNameReplacer.replace_site_name_in_text,     *)
(* DomainDetector.detect_domain_in_directory and                           *)
(* extract_domain_from_filename, each applied once to a drawn input.       *)
(***************************************************************************)
MaxTreeFiles == 3

\* texts with the old domain behind a protocol, behind www., bare, in an
\* e-mail address, under a subdomain, and absent
DomainTexts ==
    { <<"h","t","t","p",":","/","/","o","l","d",".","i","o">>,
      <<"s","e","e"," ","h","t","t","p","s",":","/","/","w","w","w",".","o","l","d",".","i","o","/","a"," ","a","n","d"," ","H","T","T","P",":","/","/","O","L","D",".","I","O">>,
      <<"h","t","t","p",":","/","/","o","l","d",".","i","o"," ","h","t","t","p",":","/","/","o","l","d",".","i","o">>,
      <<"m","a","i","l"," ","a","@","o","l","d",".","i","o">>,
      <<"w","w","w",".","o","l","d",".","i","o">>,
      <<"o","l","d",".","i","o">>,
      <<"h","t","t","p",":","/","/","c","d","n",".","o","l","d",".","i","o">>,
      <<"h","t","t","p",":","/","/","o","l","d",".","i","o","n">>,
      <<"w","w","w",".","o","l","d",".","i","o","n">>,
      <<"a","@">> \o <<"o","l","d",".","i","o","n"," ","b">>,
      <<"n","o"," ","d","o","m","a","i","n"," ","h","e","r","e">> }

\* <<old_domain, new_domain>>: unrelated domains, decorated arguments, a new
\* domain that holds the old one, and the old domain itself
DomainPairs ==
    { <<<<"o","l","d",".","i","o">>, <<"n","e","w",".","i","n","f","o">>>>,
      <<<<"w","w","w",".","o","l","d",".","i","o">>, <<"h","t","t","p","s",":","/","/","n","e","w",".","i","n","f","o">>>>,
      <<<<"o","l","d",".","i","o">>, <<"x",".","o","l","d",".","i","o">>>>,
      <<<<"o","l","d",".","i","o">>, <<"o","l","d",".","i","o">>>> }

NameTexts ==
    { <<"D","I","M","V","I","T","A","L"," ","d","i","m","v","i","t","a","l"," ","D","i","m","v","i","t","a","l">>,
      <<"D","i","m","V","i","t","a","l"," ","x","D","i","m","V","i","t","a","l"," ","D","i","m","V","i","t","a","l">>,
      <<"s","k","y"," ","S","k","y"," ","S","K","Y">>,
      <<"a","b","o","u","t"," ","u","s">> }

\* <<old_name, new_name>>
NamePairs ==
    { <<<<"D","i","m","V","i","t","a","l">>, <<"H","e","a","l","C","a","r","e">>>>,
      <<<<"D","i","m","v","i","t","a","l">>, <<"H","e","a","l","C","a","r","e">>>>,
      <<<<"s","k","y">>, <<"H","e","a","l","C","a","r","e">>>>,
      <<<<"S","k","y">>, <<"F","l","y">>>>,
      <<<<>>, <<"F","l","y">>>> }

\* the files process_file is given: a text extension, a binary extension and
\* no extension; a domain and a name, a name only, nothing
DiskFiles ==
    { [name |-> n, content |-> c, readable |-> r, has_null_byte |-> z] :
        n \in { <<"i","n","d","e","x",".","h","t","m","l">>, <<"l","o","g","o",".","p","n","g">>, <<"R","E","A","D","M","E">> },
        c \in { <<"S","k","y"," ","a","t"," ","h","t","t","p",":","/","/","s","k","y",".","n","e","t">>, <<"w","e","l","c","o","m","e"," ","t","o"," ","S","k","y">>, <<>> },
        r \in BOOLEAN, z \in BOOLEAN }

\* the files of the trees the detector is given
DetectFiles ==
    { [name |-> <<"i","n","d","e","x",".","h","t","m","l">>, readable |-> TRUE, has_null_byte |-> FALSE,
       priority_hits |-> << <<<<"s","k","y",".","n","e","t">>, 100>> >>,
       domain_hits |-> <<<<"s","k","y",".","n","e","t">>>>, name_hits |-> <<>>, replacements |-> 1],
      [name |-> <<"p","a","g","e",".","p","h","p">>, readable |-> TRUE, has_null_byte |-> FALSE,
       priority_hits |-> <<>>,
       domain_hits |-> <<<<"f","l","y",".","i","o">>, <<"f","l","y",".","i","o">>, <<"w","w","w",".","f","l","y",".","i","o">>, <<"f","l","y",".","i","o">>, <<"c","d","n",".","f","l","y",".","i","o">>>>,
       name_hits |-> <<>>, replacements |-> 5],
      [name |-> <<"a","b","o","u","t",".","h","t","m">>, readable |-> TRUE, has_null_byte |-> FALSE,
       priority_hits |-> << <<<<"o","l","d",".","o","r","g">>, 90>>, <<<<"s","h","o","p",".","f","l","y",".","i","o">>, 100>> >>,
       domain_hits |-> <<<<"o","l","d",".","o","r","g">>>>, name_hits |-> <<>>, replacements |-> 1],
      [name |-> <<"s","t","y","l","e",".","c","s","s">>, readable |-> TRUE, has_null_byte |-> FALSE,
       priority_hits |-> << <<<<"o","l","d",".","o","r","g">>, 100>> >>,
       domain_hits |-> <<<<"o","l","d",".","o","r","g">>, <<"o","l","d",".","o","r","g">>>>, name_hits |-> <<>>, replacements |-> 2],
      [name |-> <<"d","e","m","o",".","h","t","m","l">>, readable |-> TRUE, has_null_byte |-> FALSE,
       priority_hits |-> << <<<<"e","x","a","m","p","l","e",".","c","o","m">>, 100>> >>,
       domain_hits |-> <<<<"e","x","a","m","p","l","e",".","c","o","m">>, <<"o","l","d",".","o","r","g">>>>, name_hits |-> <<>>, replacements |-> 1],
      [name |-> <<"d","r","a","f","t",".","h","t","m","l">>, readable |-> FALSE, has_null_byte |-> FALSE,
       priority_hits |-> << <<<<"o","l","d",".","o","r","g">>, 100>> >>,
       domain_hits |-> <<<<"o","l","d",".","o","r","g">>>>, name_hits |-> <<>>, replacements |-> 0] }

\* the files of the trees process_directory walks: a page with a link to
\* rewrite, a picture and a page that cannot be read
TreeFiles ==
    { [name |-> <<"i","n","d","e","x",".","h","t","m","l">>, content |-> <<"S","k","y"," ","a","t"," ","h","t","t","p",":","/","/","s","k","y",".","n","e","t">>,
       readable |-> TRUE, has_null_byte |-> FALSE],
      [name |-> <<"l","o","g","o",".","p","n","g">>, content |-> <<>>,
       readable |-> TRUE, has_null_byte |-> TRUE],
      [name |-> <<"d","r","a","f","t",".","h","t","m","l">>, content |-> <<"w","w","w",".","s","k","y",".","n","e","t">>,
       readable |-> FALSE, has_null_byte |-> FALSE] }

ArchiveNames ==
    { <<"e","x","a","m","p","l","e",".","c","o","m",".","z","i","p">>, <<"m","y","s","i","t","e","_","n","e","t","_","2","0","2","4",".","z","i","p">>, <<"r","a","n","d","o","m","_","b","a","c","k","u","p",".","r","a","r">>,
      <<"w","w","w",".","s","k","y",".","n","e","t",".","z","i","p">>,
      <<"s","k","y",".","n","e","t",".","z","i","p">>, <<"f","l","y","_","i","o","_","2","0","2","4",".","r","a","r">>, <<"m","y","-","s","h","o","p","-","o","r","g",".","t","a","r",".","g","z">> }

\* the calls: the operation and its arguments.  A process_file request also
\* carries the two site names process_single_archive holds when it asks for
\* the rewriting (batch_processor.py:92 and 120); process_file has no
\* parameter that receives them
Requests ==
    { [op |-> "replace_domain_in_text", text |-> t,
       old_domain |-> p[1], new_domain |-> p[2]] : t \in DomainTexts, p \in DomainPairs }
    \cup { [op |-> "replace_site_name_in_text", text |-> t,
            old_name |-> p[1], new_name |-> p[2]] : t \in NameTexts, p \in NamePairs }
    \cup { [op |-> "process_file", file |-> f,
            old_domain |-> <<"s","k","y",".","n","e","t">>, new_domain |-> <<"v","i","t","a","s","k","y",".","c","o","m">>,
            original_site_name |-> <<"S","k","y">>, new_site_name |-> <<"V","i","t","a","s","k","y">>] :
            f \in DiskFiles }
    \cup { [op |-> "detect_domain_in_directory", tree |-> tree] :
            tree \in UNION { [1..k -> DetectFiles] : k \in 0..MaxTreeFiles } }
    \cup { [op |-> "extract_domain_from_filename", filename |-> n] : n \in ArchiveNames }
    \cup UNION { { [op |-> "process_directory", tree |-> tree, writes |-> writes,
                    old_domain |-> <<"s","k","y",".","n","e","t">>, new_domain |-> <<"v","i","t","a","s","k","y",".","c","o","m">>] :
                    tree \in [1..k -> TreeFiles], writes \in [1..k -> WriteOutcomes] } :
                  k \in 0..MaxTreeFiles }

TextInit ==
    /\ BatchIdle
    /\ dictionary = DefaultDictionary
    /\ generated_domains = {}
    /\ gen_pc = "idle"
    /\ gen_call = NoCall
    /\ attempt = 0
    /\ domains = <<>>
    /\ calls = 0
    /\ loop_returns = [d \in {} |-> 0]
    /\ emitted_before_reset = {}
    /\ word1 = None
    /\ threads = NoThreads
    /\ request \in Requests
    /\ response = <<>>
    /\ disk = IF request.op = "process_file" THEN request.file ELSE NoFile

\* FileProcessor.process_file on the stored file
ProcessFile ==
    /\ request.op = "process_file"
    /\ response = <<>>
    /\ \E write \in WriteOutcomes :
          LET done == process_file(disk, request.old_domain, request.new_domain, write)
          IN /\ response' = <<done.result>>
             /\ disk' = done.file
    /\ UNCHANGED <<gen_vars, input_vars, thread_vars, batch_vars, request>>

ReplaceDomainInText ==
    /\ request.op = "replace_domain_in_text"
    /\ response = <<>>
    /\ response' = <<replace_domain_in_text(request.text, request.old_domain,
                                            request.new_domain)>>
    /\ UNCHANGED <<gen_vars, input_vars, thread_vars, batch_vars, request, disk>>

ReplaceSiteNameInText ==
    /\ request.op = "replace_site_name_in_text"
    /\ response = <<>>
    /\ \E returned \in replace_site_name_in_text(request.text, request.old_name,
                                                 request.new_name) :
          response' = <<returned>>
    /\ UNCHANGED <<gen_vars, input_vars, thread_vars, batch_vars, request, disk>>

DetectDomainInDirectory ==
    /\ request.op = "detect_domain_in_directory"
    /\ response = <<>>
    /\ response' = <<detect_domain_in_directory(request.tree)>>
    /\ UNCHANGED <<gen_vars, input_vars, thread_vars, batch_vars, request, disk>>

ExtractDomainFromFilename ==
    /\ request.op = "extract_domain_from_filename"
    /\ response = <<>>
    /\ response' = <<extract_domain_from_filename(request.filename)>>
    /\ UNCHANGED <<gen_vars, input_vars, thread_vars, batch_vars, request, disk>>

\* FileProcessor.process_directory on the requested tree
ProcessDirectory ==
    /\ request.op = "process_directory"
    /\ response = <<>>
    /\ response' = <<process_directory(request.tree, request.old_domain,
                                       request.new_domain, request.writes)>>
    /\ UNCHANGED <<gen_vars, input_vars, thread_vars, batch_vars, request, disk>>

TextNext ==
    \/ ProcessFile
    \/ ProcessDirectory
    \/ ReplaceDomainInText
    \/ ReplaceSiteNameInText
    \/ DetectDomainInDirectory
    \/ ExtractDomainFromFilename

SpecText == TextInit /\ [][TextNext]_vars

(***************************************************************************)
(* generate_domain and generate_domains as the batch processor calls them: *)
(* the results the retry loop and the fallback can give, and the set left  *)
(* behind.  Every attempt may draw a rejected string, so the fallback is   *)
(* possible whenever some draw is rejected.                                *)
(***************************************************************************)
generate_domain(d, original_domain, zone, generated) ==
    LET parts == extract_parts(clean_original(original_domain))
        draws == AttemptDraws(d, parts)
        accepted == { c \in draws : Accepts(c, zone, generated) }
    IN { [domain |-> c \o zone, generated |-> generated \cup {c \o zone},
          from_loop |-> TRUE] : c \in accepted }
       \cup (IF max_attempts = 0 \/ accepted # draws
             THEN { [domain |-> f \o zone, generated |-> generated, from_loop |-> FALSE] :
                      f \in FallbackDraws(d, parts) }
             ELSE {})

RECURSIVE generate_domains(_, _, _, _, _)
generate_domains(d, original_domain, count, zone, generated) ==
    IF count = 0 THEN { [domains |-> <<>>, generated |-> generated, from_loop |-> <<>>] }
    ELSE UNION { { [domains |-> <<first.domain>> \o rest.domains,
                    generated |-> rest.generated,
                    from_loop |-> <<first.from_loop>> \o rest.from_loop] :
                     rest \in generate_domains(d, original_domain, count - 1, zone,
                                               first.generated) } :
                 first \in generate_domain(d, original_domain, zone, generated) }

(***************************************************************************)
(* BatchProcessor.process_multiple_archives and process_single_archive     *)
(***************************************************************************)
BatchInit ==
    /\ dictionary \in Dictionaries
    /\ generated_domains = {}
    /\ gen_pc = "idle"
    /\ gen_call = NoCall
    /\ attempt = 0
    /\ domains = <<>>
    /\ emitted_before_reset = {}
    /\ word1 = None
    /\ threads = NoThreads
    /\ calls = 0
    /\ loop_returns = [d \in {} |-> 0]
    /\ archives \in ArchiveLists(MaxArchives)
    /\ copies_count \in 1..MaxCopies
    /\ domain_zone \in Zones
    /\ progress_callback \in Callbacks
    /\ pc = "start"
    /\ idx = 0
    /\ overall_result = InitialOverallResult
    /\ all_generated_archives = <<>>
    /\ result = InitialResult(<<>>)
    /\ fs = [p \in {} |-> <<>>]
    /\ top_exception = None
    /\ pack_calls = 0
    /\ zips_created = 0
    /\ detect_calls = {}
    /\ TextIdle

\* whether one invocation of progress_callback raises
Raises == IF progress_callback = "faulty" THEN BOOLEAN ELSE {FALSE}

\* the archive of the loop's current iteration
CurrentArchive == archives[idx + 1]

\* a handler that starts the returned dict afresh
HandleTopLevelAfresh(overall, message) ==
    [overall EXCEPT !.results = <<>>,
                    !.errors = <<[archive |-> General, error |-> message]>>]

\* except Exception as e: of process_multiple_archives
HandleTopLevel(overall, message) ==
    [overall EXCEPT !.errors = Append(@, [archive |-> General, error |-> message])]

TopLevelExcept(message) ==
    /\ overall_result' = HandleTopLevel(overall_result, message)
    /\ top_exception' = message
    /\ pc' = "returned"

\* temp_base_dir = get_temp_dir(); all_generated_archives = []
Start ==
    /\ pc = "start"
    /\ \E created \in BOOLEAN :
          IF created
          THEN /\ fs' = Makedirs(fs, TempBase)
               /\ pc' = "loop"
               /\ UNCHANGED <<overall_result, top_exception>>
          ELSE /\ TopLevelExcept(OSErrorMessage)
               /\ UNCHANGED fs
    /\ all_generated_archives' = <<>>
    /\ UNCHANGED <<gen_vars, input_vars, thread_vars, text_vars, idx, result, pack_calls, zips_created, detect_calls>>

\* the head of the archive loop: the callback, then the call of
\* process_single_archive, which builds its result dict
LoopHead ==
    /\ pc = "loop"
    /\ idx < Len(archives)
    /\ \E raised \in Raises :
          IF raised
          THEN /\ TopLevelExcept(CallbackError)
               /\ UNCHANGED result
          ELSE /\ result' = InitialResult(CurrentArchive.name)
               /\ pc' = "extract"
               /\ UNCHANGED <<overall_result, top_exception>>
    /\ UNCHANGED <<gen_vars, input_vars, thread_vars, text_vars, idx, all_generated_archives, fs,
                   pack_calls, zips_created, detect_calls>>

\* process_single_archive, lines 51-62: the callback and the extraction
\* an extraction that also puts the archive's name in generated_domains
ExtractRecordingName ==
    /\ pc = "extract"
    /\ fs' = extract_archive(fs, CurrentArchive, ExtractDir(idx))
    /\ generated_domains' = generated_domains \cup {CurrentArchive.name}
    /\ IF ExtractSucceeds(CurrentArchive)
       THEN pc' = "resolve" /\ UNCHANGED result
       ELSE /\ result' = [result EXCEPT !.error = ExtractionFailed]
            /\ pc' = "collect"
    /\ UNCHANGED <<dictionary, gen_pc, gen_call, attempt, domains, calls, loop_returns,
                   emitted_before_reset, word1, input_vars, thread_vars, text_vars, idx,
                   overall_result, all_generated_archives, top_exception, pack_calls,
                   zips_created, detect_calls>>

Extract ==
    /\ pc = "extract"
    /\ \E raised \in Raises :
          IF raised
          THEN /\ result' = [result EXCEPT !.error = CallbackError]
               /\ pc' = "collect"
               /\ UNCHANGED fs
          ELSE /\ fs' = extract_archive(fs, CurrentArchive, ExtractDir(idx))
               /\ IF ExtractSucceeds(CurrentArchive)
                  THEN pc' = "resolve" /\ UNCHANGED result
                  ELSE /\ result' = [result EXCEPT !.error = ExtractionFailed]
                       /\ pc' = "collect"
    /\ UNCHANGED <<gen_vars, input_vars, thread_vars, text_vars, idx, overall_result, all_generated_archives,
                   top_exception, pack_calls, zips_created, detect_calls>>

\* a test that never takes the name's domain
NeverFullDomain(domain_from_filename) == FALSE

\* if domain_from_filename and '.' in domain_from_filename
IsFullDomain(domain_from_filename) ==
    /\ domain_from_filename # None
    /\ domain_from_filename # <<>>
    /\ "." \in Range(domain_from_filename)

\* lines 67-90 without the callbacks: the original domain, or the error the
\* call ends with
ResolveDomain(archive_name, tree) ==
    LET domain_from_filename == extract_domain_from_filename(archive_name)
    IN IF IsFullDomain(domain_from_filename)
       THEN [original_domain |-> domain_from_filename, error |-> None,
             detect_called |-> FALSE]
       ELSE IF ~DetectCallBinds
       THEN [original_domain |-> None, error |-> DetectTypeError, detect_called |-> TRUE]
       ELSE LET original_domain == detect_domain_in_directory(tree)
            IN IF original_domain = None \/ original_domain = <<>>
               THEN [original_domain |-> None, error |-> DomainNotFound,
                     detect_called |-> TRUE]
               ELSE [original_domain |-> original_domain, error |-> None,
                     detect_called |-> TRUE]

\* process_single_archive, lines 64-90: the original domain
Resolve ==
    /\ pc = "resolve"
    /\ \E raised \in Raises :
          IF raised
          THEN /\ result' = [result EXCEPT !.error = CallbackError]
               /\ pc' = "collect"
               /\ UNCHANGED detect_calls
          ELSE LET resolved == ResolveDomain(CurrentArchive.name, fs[ExtractDir(idx)])
               IN /\ detect_calls' = IF resolved.detect_called
                                     THEN detect_calls \cup {idx}
                                     ELSE detect_calls
                  /\ IF resolved.error # None
                     THEN /\ result' = [result EXCEPT !.error = resolved.error]
                          /\ pc' = "collect"
                     ELSE /\ result' = [result EXCEPT
                                           !.original_domain = resolved.original_domain]
                          /\ pc' = "copies"
    /\ UNCHANGED <<gen_vars, input_vars, thread_vars, text_vars, idx, overall_result, all_generated_archives, fs,
                   top_exception, pack_calls, zips_created>>

\* the bag of loop returns after a generate_domains call
RECURSIVE BagAddAll(_, _, _)
BagAddAll(b, new_domains, from_loop) ==
    IF new_domains = <<>> THEN b
    ELSE BagAddAll(IF from_loop[1] THEN BagAdd(b, new_domains[1]) ELSE b,
                   Tail(new_domains), Tail(from_loop))

\* a copy made by renaming: the tree leaves the source
Movetree(files, src, dst) ==
    WithPath(WithPath(files, dst, files[src]), src, <<>>)

\* shutil.copytree(src, dst): dst receives the tree of src, src keeps its own
Copytree(files, src, dst) ==
    WithPath(files, dst, files[src])

\* lines 111-143: the copies from the one of index i on.  Each outcome is the
\* file system, the list archives_created, the create_zip_archive calls that
\* returned True, and str(e) of the exception that ended the loop (or None)
RECURSIVE CopyLoop(_, _, _, _, _, _, _)
CopyLoop(files, archive_idx, original_domain, new_domains, i, archives_created, raises) ==
    IF i >= Len(new_domains)
    THEN { [fs |-> files, archives_created |-> archives_created, error |-> None] }
    ELSE LET new_domain == new_domains[i + 1]
             copy_dir == CopyDir(archive_idx, i)
             copied == Copytree(files, ExtractDir(archive_idx), copy_dir)
             archive_output_path ==
                 Append(ArchiveTempDir(archive_idx), get_archive_name_from_domain(new_domain))
         IN UNION {
              IF raised
              THEN { [fs |-> files, archives_created |-> archives_created,
                      error |-> CallbackError] }
              ELSE IF ~ProcessDirectoryCallBinds
              THEN { [fs |-> copied, archives_created |-> archives_created,
                      error |-> ProcessDirectoryTypeError] }
              ELSE UNION {
                     CopyLoop(cleanup_directory(
                                  IF zipped
                                  THEN WithPath(WithPath(copied, copy_dir, walked.tree),
                                                archive_output_path, walked.tree)
                                  ELSE WithPath(copied, copy_dir, walked.tree),
                                  copy_dir, removable),
                              archive_idx, original_domain, new_domains, i + 1,
                              IF zipped
                              THEN Append(archives_created,
                                          [path |-> archive_output_path,
                                           domain |-> new_domain,
                                           stats |-> walked.stats])
                              ELSE archives_created,
                              raises) :
                     walked \in { process_directory(copied[copy_dir], original_domain,
                                                    new_domain, writes) :
                                  writes \in [DOMAIN copied[copy_dir] -> WriteOutcomes] },
                     zipped \in BOOLEAN, removable \in BOOLEAN }
              : raised \in raises }

\* process_single_archive, lines 92-151: the site name, the new domains and
\* the copies
Copies ==
    /\ pc = "copies"
    /\ \E raised \in Raises :
          IF raised
          THEN /\ result' = [result EXCEPT !.error = CallbackError]
               /\ UNCHANGED <<generated_domains, calls, loop_returns, fs, zips_created>>
          ELSE \E new \in generate_domains(dictionary, result.original_domain,
                                           copies_count, domain_zone, generated_domains) :
               \E out \in CopyLoop(fs, idx, result.original_domain, new.domains, 0, <<>>,
                                   Raises) :
                  /\ generated_domains' = new.generated
                  /\ calls' = calls + copies_count
                  /\ loop_returns' = BagAddAll(loop_returns, new.domains, new.from_loop)
                  /\ fs' = out.fs
                  /\ zips_created' = zips_created + Len(out.archives_created)
                  /\ result' =
                        IF out.error # None
                        THEN [result EXCEPT !.error = out.error]
                        ELSE [result EXCEPT
                                 !.success = TRUE,
                                 !.generated_archives = out.archives_created,
                                 !.stats = [copies_created |-> Len(out.archives_created),
                                            original_domain |-> result.original_domain]]
    /\ pc' = "collect"
    /\ UNCHANGED <<dictionary, gen_pc, gen_call, attempt, domains,
                   emitted_before_reset, word1, input_vars, thread_vars, text_vars, idx,
                   overall_result, all_generated_archives, top_exception, pack_calls,
                   detect_calls>>

\* a collection that keeps only the results of successful archives
CollectSuccessesOnly(overall, res) ==
    IF res.success
    THEN [overall EXCEPT !.results = Append(@, res),
                         !.archives_processed = @ + 1,
                         !.total_sites_created = @ + Len(res.generated_archives)]
    ELSE [overall EXCEPT !.archives_failed = @ + 1,
                         !.errors = Append(@, [archive |-> res.archive_name,
                                               error |-> res.error])]

\* a collection that does not count the failed archives
CollectUncounted(overall, res) ==
    IF res.success
    THEN [overall EXCEPT !.results = Append(@, res),
                         !.archives_processed = @ + 1,
                         !.total_sites_created = @ + Len(res.generated_archives)]
    ELSE [overall EXCEPT !.results = Append(@, res),
                         !.errors = Append(@, [archive |-> res.archive_name,
                                               error |-> res.error])]

\* lines 203-217: overall_result with the result of one archive added
Collect(overall, res) ==
    IF res.success
    THEN [overall EXCEPT !.results = Append(@, res),
                         !.archives_processed = @ + 1,
                         !.total_sites_created = @ + Len(res.generated_archives)]
    ELSE [overall EXCEPT !.results = Append(@, res),
                         !.archives_failed = @ + 1,
                         !.errors = Append(@, [archive |-> res.archive_name,
                                               error |-> res.error])]

\* the paths of the archives_created entries
Paths(generated_archives) ==
    [i \in DOMAIN generated_archives |-> generated_archives[i].path]

\* process_single_archive returned: lines 203-217, and the next iteration
CollectResult ==
    /\ pc = "collect"
    /\ overall_result' = Collect(overall_result, result)
    /\ all_generated_archives' =
          IF result.success
          THEN all_generated_archives \o Paths(result.generated_archives)
          ELSE all_generated_archives
    /\ idx' = idx + 1
    /\ pc' = "loop"
    /\ UNCHANGED <<gen_vars, input_vars, thread_vars, text_vars, result, fs, top_exception, pack_calls,
                   zips_created, detect_calls>>

\* a master archive made whatever was collected
AlwaysCreateMaster(generated) == TRUE

\* a master archive made as soon as any archive was gone through
CreateMasterAfterAnyArchive(generated) == overall_result.results # <<>>

\* if all_generated_archives:
ShouldCreateMaster(generated) == generated # <<>>

\* lines 219-232: the master archive
Master ==
    /\ pc = "loop"
    /\ idx = Len(archives)
    /\ \E raised \in Raises, made \in BOOLEAN, packed \in BOOLEAN :
          IF raised
          THEN /\ TopLevelExcept(CallbackError)
               /\ UNCHANGED <<fs, pack_calls>>
          ELSE IF ~ShouldCreateMaster(all_generated_archives)
          THEN /\ pc' = "cleanup"
               /\ UNCHANGED <<overall_result, top_exception, fs, pack_calls>>
          ELSE IF ~made
          THEN /\ TopLevelExcept(OSErrorMessage)
               /\ UNCHANGED <<fs, pack_calls>>
          ELSE /\ pack_calls' = pack_calls + 1
               /\ pc' = "cleanup"
               /\ UNCHANGED top_exception
               /\ IF packed
                  THEN /\ fs' = WithPath(Makedirs(fs, OutputDir), MasterArchivePath,
                                         all_generated_archives)
                       /\ overall_result' =
                             [overall_result EXCEPT
                                 !.master_archive_path = MasterArchivePath,
                                 !.success = TRUE]
                  ELSE /\ fs' = Makedirs(fs, OutputDir)
                       /\ UNCHANGED overall_result
    /\ UNCHANGED <<gen_vars, input_vars, thread_vars, text_vars, idx, all_generated_archives, result,
                   zips_created, detect_calls>>

\* lines 234-246: the cleanup of the temporary directory, and the return
Cleanup ==
    /\ pc = "cleanup"
    /\ \E raised \in Raises, removable \in BOOLEAN :
          IF raised
          THEN /\ TopLevelExcept(CallbackError)
               /\ UNCHANGED fs
          ELSE /\ fs' = cleanup_directory(fs, TempBase, removable)
               /\ pc' = "returned"
               /\ UNCHANGED <<overall_result, top_exception>>
    /\ UNCHANGED <<gen_vars, input_vars, thread_vars, text_vars, idx, all_generated_archives, result,
                   pack_calls, zips_created, detect_calls>>

Next ==
    \/ Start
    \/ LoopHead
    \/ Extract
    \/ Resolve
    \/ Copies
    \/ CollectResult
    \/ Master
    \/ Cleanup

Spec == BatchInit /\ [][Next]_vars

(***************************************************************************)
(* Properties of the generator (SpecGen).                                  *)
(***************************************************************************)
\* the label of a returned domain: the part before the zone of the call
Label(full_domain, zone) == Take(full_domain, Len(full_domain) - Len(zone))

\* C1: for one generator instance and any sequence of generate_domains calls
\* with no reset in between, every two full domains returned by the retry
\* loop (not by the fallback) are distinct: no full domain was returned by
\* the retry loop twice.
C1_LoopReturnsDistinct ==
    \A d \in DOMAIN loop_returns : loop_returns[d] = 1

\* C1's case: the retry loop has returned for two different originals, in
\* two generate_domains calls on the one instance
C1_TwoCallsReturned ==
    /\ gen_pc = "idle"
    /\ calls >= 2
    /\ \E a \in DOMAIN loop_returns, b \in DOMAIN loop_returns :
          /\ a # b
          /\ Contains(a, <<"s","k","y">>)
          /\ Contains(b, <<"f","l","y">>)

\* C2: every domain generate_domain returns, on every path including the
\* fallback after max_attempts failed attempts, has a label that passes
\* validate_domain.
C2_ReturnedLabelsValid ==
    \A i \in DOMAIN domains : validate_domain(Label(domains[i], gen_call.zone))

(***************************************************************************)
(* Properties of the batch processor (Spec).                               *)
(***************************************************************************)
\* C3: a failure of one archive (extraction failure, domain not found, or an
\* exception inside process_single_archive) ends only that archive: the
\* results hold, in input order, one result per archive handled so far, and
\* when process_multiple_archives returns without a top-level exception
\* every archive of the list has its result.
C3_OneResultPerArchive ==
    /\ top_exception = None =>
          /\ Len(overall_result.results) = idx
          /\ \A i \in 1..idx : overall_result.results[i].archive_name = archives[i].name
    /\ (pc = "returned" /\ top_exception = None) =>
          Len(overall_result.results) = Len(archives)

\* C3's case: the first archive failed to unpack and the second one was
\* still unpacked and got its original domain
C3_LaterArchiveProcessed ==
    /\ pc = "returned"
    /\ top_exception = None
    /\ Len(overall_result.results) = 2
    /\ overall_result.results[1].error = ExtractionFailed
    /\ overall_result.results[2].original_domain # None

\* the domains of the recorded copies are pairwise distinct and valid
CopiesDistinctAndValid(generated_archives, zone) ==
    /\ \A i, j \in DOMAIN generated_archives :
          i # j => generated_archives[i].domain # generated_archives[j].domain
    /\ \A i \in DOMAIN generated_archives :
          validate_domain(Label(generated_archives[i].domain, zone))

\* C4: for an archive that unpacks and whose content names a detectable
\* original domain D, process_single_archive (its callback not raising)
\* returns success = True, original_domain = D and copies whose domains are
\* pairwise distinct and valid.
C4_DetectableArchiveSucceeds ==
    (/\ pc = "collect"
     /\ progress_callback # "faulty"
     /\ ExtractSucceeds(CurrentArchive)
     /\ detect_domain_in_directory(CurrentArchive.tree) # None)
    => /\ result.success
       /\ result.original_domain = detect_domain_in_directory(CurrentArchive.tree)
       /\ Len(result.generated_archives) <= copies_count
       /\ CopiesDistinctAndValid(result.generated_archives, domain_zone)

\* C5: when process_multiple_archives returns, on every exit path, the
\* temporary directory made at the start of the run has been removed.
C5_TempDirRemovedOnReturn ==
    pc = "returned" => TempBase \notin DOMAIN fs

\* C6: while no copy has been packaged for any archive of the batch, the
\* result has success = False and no master archive path, and
\* create_master_archive has not been called; so it is when the batch returns.
C6_NoCopiesNoMaster ==
    zips_created = 0 =>
        /\ ~overall_result.success
        /\ overall_result.master_archive_path = None
        /\ pack_calls = 0

\* C6's case: a batch with archives returned, none of them packaged
C6_ReturnedWithoutCopies ==
    /\ pc = "returned"
    /\ top_exception = None
    /\ Len(overall_result.results) = Len(archives)
    /\ archives # <<>>
    /\ zips_created = 0

\* the (archive, error) entries of the failed results, in order
RECURSIVE FailedEntries(_)
FailedEntries(results) ==
    IF results = <<>> THEN <<>>
    ELSE LET res == results[Len(results)]
             before == FailedEntries(SubSeq(results, 1, Len(results) - 1))
         IN IF res.success THEN before
            ELSE Append(before, [archive |-> res.archive_name, error |-> res.error])

\* the number of successful results, and of the copies they record
RECURSIVE SuccessCount(_)
SuccessCount(results) ==
    IF results = <<>> THEN 0
    ELSE SuccessCount(Tail(results)) + (IF results[1].success THEN 1 ELSE 0)

RECURSIVE CopiesOfSuccesses(_)
CopiesOfSuccesses(results) ==
    IF results = <<>> THEN 0
    ELSE CopiesOfSuccesses(Tail(results))
         + (IF results[1].success THEN Len(results[1].generated_archives) ELSE 0)

\* C7: at every point of process_multiple_archives and in the dict it
\* returns, archives_processed + archives_failed is the number of archives
\* handled so far, the errors list holds one (archive, error) entry per
\* failed archive (followed only by the entry of a top-level exception), and
\* total_sites_created is the sum of the copies of the successful archives.
C7_CountersConsistent ==
    /\ overall_result.archives_processed + overall_result.archives_failed
          = Len(overall_result.results)
    /\ overall_result.archives_processed = SuccessCount(overall_result.results)
    /\ overall_result.errors
          = FailedEntries(overall_result.results)
            \o (IF top_exception = None THEN <<>>
                ELSE <<[archive |-> General, error |-> top_exception]>>)
    /\ overall_result.total_sites_created = CopiesOfSuccesses(overall_result.results)

\* C7's case: two archives were handled and both failed
C7_TwoFailuresCounted ==
    /\ Len(overall_result.results) = 2
    /\ overall_result.archives_failed = 2
    /\ Len(overall_result.errors) = 2

\* C8: an exception at the top level of process_multiple_archives is not
\* raised to the caller: the call returns the dict with the results and
\* counters collected so far unchanged, and one more entry, the general one,
\* in errors.
C8_TopLevelExceptionKeepsResults ==
    [][(top_exception = None /\ top_exception' # None) =>
          /\ pc' = "returned"
          /\ overall_result' =
                [overall_result EXCEPT
                    !.errors = Append(@, [archive |-> General,
                                          error |-> top_exception'])]]_vars

\* C8's case: the top-level handler ran after an archive had been handled
C8_ExceptionAfterResults ==
    /\ pc = "returned"
    /\ top_exception # None
    /\ Len(overall_result.results) >= 1
    /\ Len(overall_result.errors) = overall_result.archives_failed + 1

\* C9: a progress callback that raises does not abort anything: no archive
\* ends with the callback's exception as its error, and the batch does not
\* end in the top-level handler with it.
C9_CallbackFailureHarmless ==
    /\ top_exception # CallbackError
    /\ result.error # CallbackError
    /\ \A i \in DOMAIN overall_result.results :
          overall_result.results[i].error # CallbackError

\* C10: when the archive's file name yields no full domain (the archive
\* unpacked and no callback raised), the original domain is the one
\* detect_domain_in_directory finds in the extracted tree; the archive fails
\* only when it finds none, and then with the domain-not-found error, no
\* copies and success = False.
C10_ContentDetectionDecides ==
    (/\ pc = "collect"
     /\ progress_callback # "faulty"
     /\ ExtractSucceeds(CurrentArchive)
     /\ ~IsFullDomain(extract_domain_from_filename(CurrentArchive.name)))
    => LET detected == detect_domain_in_directory(CurrentArchive.tree)
       IN IF detected = None
          THEN /\ result.error = DomainNotFound
               /\ result.generated_archives = <<>>
               /\ ~result.success
          ELSE /\ result.original_domain = detected
               /\ result.error # DomainNotFound

\* the file name yields a domain with a zone
NameHoldsDomain(archive_name) ==
    LET found == extract_domain_from_filename(archive_name)
    IN found # None /\ "." \in Range(found)

\* C11: when extract_domain_from_filename returns a full validated domain,
\* that domain becomes the archive's original domain, and the detector's
\* scan of the extracted tree is not called for that archive.
C11_FilenameDomainBypassesScan ==
    /\ \A i \in detect_calls : ~NameHoldsDomain(archives[i + 1].name)
    /\ (/\ pc \in {"copies", "collect"}
        /\ result.error # CallbackError
        /\ ExtractSucceeds(CurrentArchive)
        /\ NameHoldsDomain(CurrentArchive.name))
       => result.original_domain = extract_domain_from_filename(CurrentArchive.name)

\* C11's case: the archive sky.net.zip got its original domain from its name
C11_FilenameDomainUsed ==
    /\ pc = "copies"
    /\ NameHoldsDomain(CurrentArchive.name)
    /\ result.original_domain = <<"s","k","y",".","n","e","t">>
    /\ idx \notin detect_calls

C20_ResetClearsOnlyEmitted ==
    [][ (\/ emitted_before_reset' # emitted_before_reset
         \/ (generated_domains # {} /\ generated_domains' = {}))
        => /\ generated_domains' = {}
           /\ UNCHANGED <<dictionary, gen_pc, gen_call, attempt, domains, calls>>
           /\ \A d \in generated_domains : d \notin generated_domains' ]_vars

\* a full domain emitted before a reset has been emitted again after it
C20_EmittedAgainAfterReset ==
    /\ gen_pc = "idle"
    /\ \E d \in emitted_before_reset : d \in generated_domains /\ d \in Range(domains)

\* C14: after process_file, the stored content differs from the content before
\* only if the file is classified text and the domain rewriting counted at
\* least one replacement; a file classified binary is left as it was and
\* reported as a success without replacements; a text file with no
\* replacement is left as it was, whatever a write would have done.
C14_ContentChangesOnlyOnReplacement ==
    (request.op = "process_file" /\ response # <<>>)
    => LET before == request.file
           count == replace_domain_in_text(before.content, request.old_domain,
                                           request.new_domain).count
       IN /\ disk.content # before.content => fp_is_text_file(before) /\ count >= 1
          /\ ~fp_is_text_file(before)
                => /\ disk = before
                   /\ response[1].success
                   /\ response[1].replacements = 0
          /\ (fp_is_text_file(before) /\ count = 0) => disk = before

\* a text file whose one link was rewritten and stored
C14_RewrittenFileStored ==
    /\ request.op = "process_file"
    /\ response # <<>>
    /\ response[1].replacements = 1
    /\ request.file.content = <<"S","k","y"," ","a","t"," ","h","t","t","p",":","/","/","s","k","y",".","n","e","t">>
    /\ disk.content = <<"S","k","y"," ","a","t"," ","h","t","t","p","s",":","/","/","v","i","t","a","s","k","y",".","c","o","m">>

\* C15: for a text file that was read and stored without error, the stored
\* content is the domain rewriting followed by the site-name rewriting of the
\* content before, and the returned count is the sum of the two counts.
C15_NamesRewrittenInFile ==
    (/\ request.op = "process_file"
     /\ response # <<>>
     /\ fp_is_text_file(request.file)
     /\ request.file.readable
     /\ response[1].success)
    => LET by_domain == replace_domain_in_text(request.file.content, request.old_domain,
                                               request.new_domain)
       IN \E by_name \in replace_site_name_in_text(by_domain.text,
                                                    request.original_site_name,
                                                    request.new_site_name) :
             /\ response[1].replacements = by_domain.count + by_name.count
             /\ disk.content = by_name.text

\* the positions where `word` occurs in `text`, letter case aside
OccurrencesOf(text, word) ==
    { i \in 1..(Len(text) - Len(word) + 1) :
        Lower(SubSeq(text, i, i + Len(word) - 1)) = Lower(word) }

\* the occurrence at position i directly follows http:// or https://, with or
\* without www.
ProtocolQualified(text, i) ==
    \E prefix \in { <<"h","t","t","p",":","/","/">>, <<"h","t","t","p","s",":","/","/">>, <<"h","t","t","p",":","/","/","w","w","w",".">>, <<"h","t","t","p","s",":","/","/","w","w","w",".">> } :
       /\ i > Len(prefix)
       /\ Lower(SubSeq(text, i - Len(prefix), i - 1)) = prefix

\* the text holds the old domain, and only behind a protocol
OnlyProtocolQualified(text, old) ==
    /\ OccurrencesOf(text, old) # {}
    /\ \A i \in OccurrencesOf(text, old) : ProtocolQualified(text, i)

\* the returned count is the number of occurrences, the returned text holds
\* the old domain nowhere and holds https://new once more per occurrence
QualifiedOccurrencesRewritten(text, old, new, returned) ==
    /\ returned.count = Cardinality(OccurrencesOf(text, old))
    /\ OccurrencesOf(returned.text, old) = {}
    /\ Cardinality(OccurrencesOf(returned.text, <<"h","t","t","p","s",":","/","/">> \o new))
          = Cardinality(OccurrencesOf(text, <<"h","t","t","p","s",":","/","/">> \o new))
            + Cardinality(OccurrencesOf(text, old))

\* the text after the first pass alone
AfterProtocolPass(text, old, new) ==
    Subn(text, domain_patterns(old, new)[1].pattern,
         domain_patterns(old, new)[1].replacement).text

\* C16 as stated: for every text whose occurrences of the old domain all
\* follow a protocol, and every new domain, replace_domain_in_text returns
\* the number of occurrences as its count and a text without the old domain
\* in which each occurrence has become https:// and the new domain.
C16_QualifiedRewrittenForAnyDomains ==
    (/\ request.op = "replace_domain_in_text"
     /\ response # <<>>
     /\ OnlyProtocolQualified(request.text, StripWwwAndProtocol(request.old_domain)))
    => QualifiedOccurrencesRewritten(request.text,
                                     StripWwwAndProtocol(request.old_domain),
                                     StripWwwAndProtocol(request.new_domain),
                                     response[1])

\* C16, amended: the same, for the texts in which the first pass leaves no
\* occurrence of the old domain, that is, when the inserted new domain does
\* not hold or complete the old one; the later passes then add nothing.
C16_QualifiedRewrittenUnlessReinserted ==
    (/\ request.op = "replace_domain_in_text"
     /\ response # <<>>
     /\ OnlyProtocolQualified(request.text, StripWwwAndProtocol(request.old_domain))
     /\ OccurrencesOf(AfterProtocolPass(request.text,
                                         StripWwwAndProtocol(request.old_domain),
                                         StripWwwAndProtocol(request.new_domain)),
                       StripWwwAndProtocol(request.old_domain)) = {})
    => /\ QualifiedOccurrencesRewritten(request.text,
                                        StripWwwAndProtocol(request.old_domain),
                                        StripWwwAndProtocol(request.new_domain),
                                        response[1])
       /\ response[1].text = AfterProtocolPass(request.text,
                                               StripWwwAndProtocol(request.old_domain),
                                               StripWwwAndProtocol(request.new_domain))

\* the two links of a text, one with www. and one in capitals, both rewritten
C16_TwoLinksRewritten ==
    /\ request.op = "replace_domain_in_text"
    /\ request.text = <<"s","e","e"," ","h","t","t","p","s",":","/","/","w","w","w",".","o","l","d",".","i","o","/","a"," ","a","n","d"," ","H","T","T","P",":","/","/","O","L","D",".","I","O">>
    /\ response # <<>>
    /\ response[1] = [text |-> <<"s","e","e"," ","h","t","t","p","s",":","/","/","n","e","w",".","i","n","f","o","/","a"," ","a","n","d"," ","h","t","t","p","s",":","/","/","n","e","w",".","i","n","f","o">>, count |-> 2]

\* the name as given, in lower case, in upper case, capitalized
NameVariant(name, k) ==
    IF k = 1 THEN name
    ELSE IF k = 2 THEN Lower(name)
    ELSE IF k = 3 THEN Upper(name)
    ELSE Capitalize(name)

\* the variants of the new name a word may become: those of the classes in
\* which the old name reads as that word
NewVariantsFor(word, old_name, new_name) ==
    { NameVariant(new_name, k) : k \in { j \in 1..4 : NameVariant(old_name, j) = word } }

\* C17: in a text of words separated by spaces, replace_site_name_in_text
\* turns every word that is the old name in one of the four variants into
\* the new name in that variant, leaves every other word as it was, and
\* returns the number of words it turned.
C17_EveryVariantReplaced ==
    (/\ request.op = "replace_site_name_in_text"
     /\ response # <<>>
     /\ request.old_name # <<>>
     /\ request.new_name # <<>>)
    => LET before == Split(request.text, " ")
           after == Split(response[1].text, " ")
           New(i) == NewVariantsFor(before[i], request.old_name, request.new_name)
       IN /\ Len(after) = Len(before)
          /\ \A i \in DOMAIN before :
                IF New(i) = {} THEN after[i] = before[i] ELSE after[i] \in New(i)
          /\ response[1].count
                = Cardinality({ i \in DOMAIN before : New(i) \ {before[i]} # {} })

\* the three variants of DimVital in one text, each replaced in kind
C17_ThreeVariantsReplaced ==
    /\ request.op = "replace_site_name_in_text"
    /\ request.text = <<"D","I","M","V","I","T","A","L"," ","d","i","m","v","i","t","a","l"," ","D","i","m","v","i","t","a","l">>
    /\ request.old_name = <<"D","i","m","V","i","t","a","l">>
    /\ request.new_name = <<"H","e","a","l","C","a","r","e">>
    /\ response = <<[text |-> <<"H","E","A","L","C","A","R","E"," ","h","e","a","l","c","a","r","e"," ","H","e","a","l","c","a","r","e">>, count |-> 3]>>

\* <<file, hit>>: the priority-pattern matches of the tree that count, those
\* of a readable .html, .htm or .php file whose domain validates
PriorityMatches(tree) ==
    { p \in UNION { { <<f, h>> : h \in DOMAIN tree[f].priority_hits } : f \in DOMAIN tree } :
        /\ Scanned(tree[p[1]])
        /\ Lower(Splitext(tree[p[1]].name)) \in priority_extensions
        /\ tree[p[1]].priority_hits[p[2]][1] # <<>>
        /\ is_valid_domain(clean_domain(tree[p[1]].priority_hits[p[2]][1])) }

PriorityDomain(tree, p) == clean_domain(tree[p[1]].priority_hits[p[2]][1])

\* the highest weight among the matches of the domain of match p
TopWeight(tree, p) ==
    LET weights == { tree[q[1]].priority_hits[q[2]][2] :
                       q \in { r \in PriorityMatches(tree) :
                                 PriorityDomain(tree, r) = PriorityDomain(tree, p) } }
    IN CHOOSE w \in weights : \A v \in weights : v <= w

\* match p is met before match q in the walk
MetBefore(p, q) == p[1] < q[1] \/ (p[1] = q[1] /\ p[2] < q[2])

\* <<file, hit>>: the frequency matches of the tree that validate
FrequencyMatches(tree) ==
    { p \in UNION { { <<f, h>> : h \in DOMAIN tree[f].domain_hits } : f \in DOMAIN tree } :
        /\ Scanned(tree[p[1]])
        /\ is_valid_domain(clean_domain(tree[p[1]].domain_hits[p[2]])) }

FrequencyDomain(tree, p) ==
    normalize_to_base_domain(clean_domain(tree[p[1]].domain_hits[p[2]]))

RECURSIVE WeightSum(_, _)
\* the sum of the file weights of a set of matches
WeightSum(tree, matches) ==
    IF matches = {} THEN 0
    ELSE LET p == CHOOSE q \in matches : TRUE
         IN get_file_weight(tree[p[1]].name) + WeightSum(tree, matches \ {p})

\* the weighted tally of the domain of frequency match p
Tally(tree, p) ==
    WeightSum(tree, { q \in FrequencyMatches(tree) :
                        FrequencyDomain(tree, q) = FrequencyDomain(tree, p) })

\* C18: when some priority match of the tree validates, the detector returns
\* (as a base domain) the priority domain of the highest weight, the one met
\* first among equals, whatever the frequency tallies are; without a valid
\* priority match it returns a domain of the highest weighted tally, or None
\* when no domain was tallied.
C18_PriorityOverridesFrequency ==
    (request.op = "detect_domain_in_directory" /\ response # <<>>)
    => LET tree == request.tree
           P == PriorityMatches(tree)
           F == FrequencyMatches(tree)
       IN IF P # {}
          THEN \E p \in P :
                  /\ response[1] = normalize_to_base_domain(PriorityDomain(tree, p))
                  /\ \A q \in P :
                        /\ TopWeight(tree, q) <= TopWeight(tree, p)
                        /\ (/\ TopWeight(tree, q) = TopWeight(tree, p)
                            /\ PriorityDomain(tree, q) # PriorityDomain(tree, p))
                           => \E first \in P :
                                 /\ PriorityDomain(tree, first) = PriorityDomain(tree, p)
                                 /\ MetBefore(first, q)
          ELSE IF F = {} THEN response[1] = None
          ELSE \E p \in F :
                  /\ response[1] = FrequencyDomain(tree, p)
                  /\ \A q \in F : Tally(tree, q) <= Tally(tree, p)

\* one canonical link to sky.net wins over a tally of 15 for fly.io
C18_CanonicalBeatsTally ==
    /\ request.op = "detect_domain_in_directory"
    /\ Len(request.tree) = 2
    /\ request.tree[1].name = <<"p","a","g","e",".","p","h","p">>
    /\ request.tree[2].name = <<"i","n","d","e","x",".","h","t","m","l">>
    /\ \E p \in FrequencyMatches(request.tree) :
          /\ FrequencyDomain(request.tree, p) = <<"f","l","y",".","i","o">>
          /\ Tally(request.tree, p) = 15
    /\ response = <<<<"s","k","y",".","n","e","t">>>>

\* C19: extract_domain_from_filename returns the domain a file name holds:
\* "example.com.zip" gives "example.com", "mysite_net_2024.zip" gives
\* "mysite.net", and "random_backup.rar", which holds no zone, gives None.
C19_FilenameExamples ==
    (request.op = "extract_domain_from_filename" /\ response # <<>>)
    => /\ request.filename = <<"e","x","a","m","p","l","e",".","c","o","m",".","z","i","p">> => response[1] = <<"e","x","a","m","p","l","e",".","c","o","m">>
       /\ request.filename = <<"m","y","s","i","t","e","_","n","e","t","_","2","0","2","4",".","z","i","p">> => response[1] = <<"m","y","s","i","t","e",".","n","e","t">>
       /\ request.filename = <<"r","a","n","d","o","m","_","b","a","c","k","u","p",".","r","a","r">> => response[1] = None

\* C21: a call of generate_domain makes at most max_attempts attempts and
\* comes to its return, whatever non-empty list of short words the
\* dictionary holds.
C21_GenerateTerminates ==
    /\ [](attempt <= max_attempts)
    /\ (gen_pc # "idle") ~> (gen_pc = "idle")

\* C22: process_directory calls process_file on every file of the tree, a
\* file that cannot be read or written does not end the walk, and the
\* returned stats add up: total_files = processed_files + skipped_files +
\* error_files, the errors list has error_files entries, and
\* total_replacements is the sum of the counts of the processed files.
FileResults ==
    [i \in DOMAIN request.tree |->
        process_file(request.tree[i], request.old_domain, request.new_domain,
                     request.writes[i])]

RECURSIVE SumReplacements(_, _)
SumReplacements(results, n) ==
    IF n = 0 THEN 0
    ELSE SumReplacements(results, n - 1)
         + (IF results[n].result.success THEN results[n].result.replacements ELSE 0)

C22_WalkCountsEveryFile ==
    (request.op = "process_directory" /\ response # <<>>) =>
        LET stats == response[1].stats
            failed == { i \in DOMAIN request.tree : ~FileResults[i].result.success }
        IN /\ stats.total_files = Len(request.tree)
           /\ stats.total_files = stats.processed_files + stats.skipped_files
                                     + stats.error_files
           /\ Len(stats.errors) = stats.error_files
           /\ stats.error_files = Cardinality(failed)
           /\ stats.total_replacements = SumReplacements(FileResults, Len(request.tree))
           /\ response[1].tree = [i \in DOMAIN request.tree |-> FileResults[i].file]

\* a page that cannot be read, then a page whose write fails, then a page
\* that is rewritten
C22_RewrittenAfterTwoFailures ==
    /\ request.op = "process_directory"
    /\ response # <<>>
    /\ Len(request.tree) = 3
    /\ ~request.tree[1].readable
    /\ request.writes[2] = "write_fails"
    /\ response[1].stats.error_files = 2
    /\ response[1].stats.processed_files = 1
    /\ response[1].stats.total_replacements = 1
    /\ response[1].tree[3].content # request.tree[3].content

\* C23: the membership test and the insert on generated_domains are one
\* atomic step with respect to other generate_domain calls on the same
\* generator: whatever the interleaving of two calls, the two never both
\* return the same full domain out of the retry loop.
C23_ThreadsReturnDistinctDomains ==
    \A t, u \in Threads :
        (/\ t # u
         /\ threads[t].pc = "done" /\ threads[t].from_loop
         /\ threads[u].pc = "done" /\ threads[u].from_loop)
        => threads[t].returned # threads[u].returned

\* C24: whenever process_multiple_archives returns with success = False, the
\* errors list of the returned dict is not empty: a batch of no archives, a
\* batch none of whose copies was packaged and a failed create_master_archive
\* included.
C24_FailedBatchReportsAnError ==
    (pc = "returned" /\ ~overall_result.success) => overall_result.errors # <<>>

\* C25: in the dict process_multiple_archives returns, success is True exactly
\* when master_archive_path is not None, and only when at least one copy was
\* collected and create_master_archive returned True.
C25_SuccessIffMasterArchive ==
    pc = "returned" =>
        /\ overall_result.success <=> overall_result.master_archive_path # None
        /\ overall_result.success =>
              /\ all_generated_archives # <<>>
              /\ pack_calls >= 1
              /\ MasterArchivePath \in DOMAIN fs

\* a batch of two archives returned after its copies were attempted, with
\* neither a master archive nor success
C25_ReturnedWithoutMaster ==
    /\ pc = "returned"
    /\ Len(overall_result.results) = 2
    /\ calls >= 1
    /\ ~overall_result.success
    /\ overall_result.master_archive_path = None
    /\ all_generated_archives = <<>>

\* C26: the dict process_single_archive returns is consistent: success = True
\* comes with error None, an original_domain and no more recorded copies than
\* were asked for; success = False comes with an error and an empty
\* generated_archives list, whatever was packaged before the failure.
C26_ArchiveResultConsistent ==
    pc = "collect" =>
        IF result.success
        THEN /\ result.error = None
             /\ result.original_domain # None
             /\ Len(result.generated_archives) <= copies_count
        ELSE /\ result.error # None
             /\ result.generated_archives = <<>>

\* an archive that failed after its first copy was made
C26_FailedAfterCopy ==
    /\ pc = "collect"
    /\ ~result.success
    /\ result.error \notin {None, ExtractionFailed, DomainNotFound, CallbackError}
    /\ result.original_domain # None
    /\ CopyDir(idx, 0) \in DOMAIN fs
    /\ result.generated_archives = <<>>

C28_FailedArchiveLeavesEmitted ==
    [][ /\ (pc \in {"loop", "extract", "resolve", "collect"}
            => generated_domains' = generated_domains)
        /\ ((pc' = "collect" /\ pc # "collect" /\ result'.original_domain = None)
            => pc \in {"extract", "resolve"}) ]_vars

\* the second archive of a batch failed at extraction or resolution after the
\* first one had domains generated: the set still holds those
C28_FailedAfterEmitting ==
    /\ pc = "collect"
    /\ idx = 1
    /\ result.error \in {ExtractionFailed, DomainNotFound, DetectTypeError}
    /\ generated_domains # {}

\* C29: extract_domain_from_filename returns None or a full domain that
\* passes is_valid_domain (it holds a dot, its last label is alphabetic, it
\* is not an ignored domain), never a name without a zone, so that the hint
\* process_single_archive hands to the scan of the contents is always None.
C29_FilenameDomainIsValidated ==
    (request.op = "extract_domain_from_filename" /\ response # <<>>) =>
        \/ response[1] = None
        \/ is_valid_domain(response[1])

\* the old domain is in the text, and only as the start of a longer domain:
\* each of its occurrences is followed by a word character
OnlyAsPrefix(text, old) ==
    LET starts == { i \in 1..(Len(text) - Len(old) + 1) :
                      Lower(SubSeq(text, i, i + Len(old) - 1)) = Lower(old) }
    IN /\ starts # {}
       /\ \A i \in starts : /\ i + Len(old) <= Len(text)
                             /\ text[i + Len(old)] \in WordChars

\* C30: replace_domain_in_text replaces whole occurrences of the old domain
\* only: a text in which the old domain is only the start of a longer domain
\* (for old.io: http://old.ion, www.old.ion, a@old.ion) comes back unchanged
\* with a count of 0, whichever pass would meet it.
C30_LongerDomainLeftAlone ==
    (/\ request.op = "replace_domain_in_text"
     /\ response # <<>>
     /\ OnlyAsPrefix(request.text, StripWwwAndProtocol(request.old_domain)))
    => /\ response[1].text = request.text
       /\ response[1].count = 0

=============================================================================
